---------------------------- MODULE Spec2Model ----------------------------
(***************************************************************************)
(* Merchant risk screening and fraud scoring (MerchSentAI).                *)
(*                                                                         *)
(* The specifications of this module share its variables; each leaves the  *)
(* variables of the others at their idle values:                           *)
(*   Spec         the rule scorers: the add_flags copies and the           *)
(*                run_fraud_analysis functions behind the enrichment step; *)
(*   SpecTx       api/analysis.py analyze_fraud over a transaction log;    *)
(*   SpecCb       detect_chargeback_fraud over chargeback aggregates;      *)
(*   SpecScreen   api/screening.py screen_merchants and fuzzy_match;       *)
(*   SpecWiz      apply_fraud_logic of the full wizard;                    *)
(*   SpecSession  the staged wizards, one script run per step, with        *)
(*                st.session_state carried from run to run;                *)
(*   SpecStage4   the wizard with separate raw and refined simulations;    *)
(*   SpecOldDocs  Old docs/app.py, the pipeline that caches each step.     *)
(*                                                                         *)
(* Numbers: FraudScore is kept in tenths of a percent (an integer), so     *)
(* that round(x, 1) is a rounding to an integer.  Chargeback rates are     *)
(* exact fractions or one of the IEEE specials NaN / inf that a division   *)
(* by zero produces in pandas.                                             *)
(***************************************************************************)
EXTENDS Integers, Sequences, FiniteSets, TLC

VARIABLES
    batch,      \* the merchant frame handed to the scorer (a sequence of records)
    pc,         \* "load" while the frame is built, "scored" after a scorer ran
    copy,       \* which copy of the scoring logic produced out
    threshold,  \* the suspicious threshold the scorer ran with (percent)
    out,        \* the frame the scorer returned
    prev,       \* the frame the previous run of the same page returned
    txs,        \* analyze_fraud: the transaction log, rows counted by kind
    hasLoc,     \* analyze_fraud: whether the log has a merchant_location column
    txpc,       \* analyze_fraud: "input" or "analyzed"
    txOut,      \* analyze_fraud: the returned frame and the function's locals
    cbs,        \* detect_chargeback_fraud: the merchant frame, rows counted by kind
    cbpc,       \* detect_chargeback_fraud: "input" or "detected"
    cbOut,      \* detect_chargeback_fraud: the columns written and the flags returned
    sdf,        \* screen_merchants: the caller's frame (cells, screening_flag column)
    spc,        \* screen_merchants: "input", "screened" or "raised"
    sOut,       \* screen_merchants: the frame returned
    processor,  \* rapidfuzz: the default string preprocessing of the installed version
    fm,         \* fuzzy_match: one call, its arguments and its result
    wdf,        \* apply_fraud_logic: the caller's frame (cells, columns written)
    wpc,        \* apply_fraud_logic: "input" or "analyzed"
    wOut,       \* apply_fraud_logic: the value returned
    app,        \* the sessions: which script the session runs
    ss,         \* the sessions: st.session_state, a function of its keys
    shown,      \* the sessions: how the last run of the script ended
    runs        \* the sessions: how often each stage computed since the load

vars == << batch, pc, copy, threshold, out, prev,
           txs, hasLoc, txpc, txOut, cbs, cbpc, cbOut,
           sdf, spc, sOut, processor, fm, wdf, wpc, wOut,
           app, ss, shown, runs >>

scoreVars == << batch, pc, copy, threshold, out, prev >>
txVars == << txs, hasLoc, txpc, txOut >>
cbVars == << cbs, cbpc, cbOut >>
scrVars == << sdf, spc, sOut, processor, fm >>
wizVars == << wdf, wpc, wOut >>
sessVars == << app, ss, shown, runs >>

(***************************************************************************)
(* Bounds of the model.                                                    *)
(***************************************************************************)
MaxBatch == 2
MaxTx == 12
MaxMerchants == 10
MaxRows == 3
MaxWiz == 2
MaxSession == 2
MaxRuns == 2

(***************************************************************************)
(* Small helpers.                                                          *)
(***************************************************************************)
RECURSIVE SumOver(_, _)
SumOver(f, S) ==
    IF S = {} THEN 0
    ELSE LET x == CHOOSE y \in S : TRUE
         IN f[x] + SumOver(f, S \ {x})

Range(s) == { s[i] : i \in DOMAIN s }

Abs(x) == IF x < 0 THEN -x ELSE x

\* condition.astype(int)
AsInt(b) == IF b THEN 1 ELSE 0

\* sep.join(parts)
RECURSIVE join(_, _)
join(sep, parts) ==
    IF parts = << >> THEN ""
    ELSE IF Len(parts) = 1 THEN parts[1]
    ELSE parts[1] \o sep \o join(sep, Tail(parts))

\* df.get(col, default) for one row: the cell, or the default where the frame
\* has no such value.
get(r, col, default) == IF col \in DOMAIN r THEN r[col] ELSE default

(***************************************************************************)
(* The rule scorers.                                                       *)
(***************************************************************************)
\* The configuration every copy of the scorer hard-codes.
high_risk_countries == { "Iran", "North Korea", "Syria", "Cuba", "Russia", "Venezuela" }
\* The crypto rule taken off the category list.
high_risk_categories_NoCrypto == { "Gambling", "Adult Content", "Arms Dealing" }
high_risk_categories == { "Cryptocurrency", "Gambling", "Adult Content", "Arms Dealing" }
pep_list == { "John Smith", "Emma Johnson", "Michael Brown", "Sarah Davis" }

HighAmountLimit == 10000
LuxuryAmountLimit == 50000
EnergyAmountLimit == 100000
RecentDays == 30
RiskScoreLimit == 80
DefaultThreshold == 50

\* rules.keys(), in definition order
flag_cols == << "SanctionedFlag", "HighRiskCountryFlag", "HighRiskCategoryFlag",
                "HighAmountFlag", "RecentRegistrationFlag", "CryptoRelatedFlag",
                "LuxuryHighValueFlag", "EnergyLargeVolumeFlag", "OddNameLengthFlag",
                "HighRiskScoreFlag" >>

\* pd.to_datetime(..., errors='coerce'): a registration date is written as its age
\* ("29 days ago"); any other text is no date and is coerced to NaT.
IsDate(RegistrationDate) ==
    RegistrationDate \in { "29 days ago", "30 days ago", "400 days ago" }

\* (pd.Timestamp('today') - RegistrationDate).dt.days of a parsed date
DaysSince(RegistrationDate) ==
    CASE RegistrationDate = "29 days ago" -> 29
      [] RegistrationDate = "30 days ago" -> 30
      [] RegistrationDate = "400 days ago" -> 400

\* (today - RegistrationDate).dt.days < 30; a comparison with NaT is False
RecentRegistration(RegistrationDate) ==
    IsDate(RegistrationDate) /\ DaysSince(RegistrationDate) < RecentDays

\* The risk score rule with the limit itself included.
HighRiskScore_AtLeast(score) == score >= RiskScoreLimit

\* df['Enriched_RiskScore'] > 80
HighRiskScore(score) == score > RiskScoreLimit

\* The ten rule conditions of one row; peps is results['pep_list'].
Rules(r, peps) ==
    [ SanctionedFlag |-> r.MerchantName \in peps,
      HighRiskCountryFlag |-> r.Country \in high_risk_countries,
      HighRiskCategoryFlag |-> r.BusinessCategory \in high_risk_categories,
      HighAmountFlag |-> r.AvgTransaction > HighAmountLimit,
      RecentRegistrationFlag |-> RecentRegistration(r.RegistrationDate),
      CryptoRelatedFlag |-> r.BusinessCategory = "Cryptocurrency",
      LuxuryHighValueFlag |-> r.BusinessCategory = "Luxury Goods"
                              /\ r.AvgTransaction > LuxuryAmountLimit,
      EnergyLargeVolumeFlag |-> r.BusinessCategory = "Energy"
                              /\ r.AvgTransaction > EnergyAmountLimit,
      OddNameLengthFlag |-> Len(r.MerchantName) % 2 = 1,
      HighRiskScoreFlag |-> HighRiskScore(get(r, "Enriched_RiskScore", 0)) ]

\* df[flag_cols].sum(axis=1) over the 0/1 columns
FlagsTrippedOf(flags) ==
    SumOver([c \in Range(flag_cols) |-> AsInt(flags[c])], Range(flag_cols))

\* round(p / q, 0) for p >= 0, q > 0, ties to even as numpy rounds
RoundDiv(p, q) ==
    LET f == p \div q
        twice == 2 * (p % q)
    IN IF twice < q THEN f
       ELSE IF twice > q THEN f + 1
       ELSE IF f % 2 = 0 THEN f ELSE f + 1

\* (FlagsTripped / len(flag_cols) * 100).round(1), in tenths of a percent
FraudScoreOf_Fraction(tripped, nrules) == RoundDiv(tripped * 10, nrules)

FraudScoreOf(tripped, nrules) == RoundDiv(tripped * 1000, nrules)

\* One row of the frame add_flags returns.
ScoredRow(r, peps, thr) ==
    LET flags == Rules(r, peps)
        tripped == FlagsTrippedOf(flags)
        score == FraudScoreOf(tripped, Len(flag_cols))
    IN [ rec |-> r,
         flags |-> [c \in Range(flag_cols) |-> AsInt(flags[c])],
         FlagsTripped |-> tripped,
         FraudScore |-> score,
         IsSuspicious |-> score >= thr * 10 ]

\* add_flags(df, threshold) of merchsentai_app_final_visual.py / merchsentai_appp.py
add_flags(df, thr) == [i \in DOMAIN df |-> ScoredRow(df[i], pep_list, thr)]

\* add_flags(df) of merchsentai_app_final.py: the threshold is the literal 50
add_flags_final(df) == [i \in DOMAIN df |-> ScoredRow(df[i], pep_list, DefaultThreshold)]

\* add_flags of merchsentai_app_refined.py: "Ensure at least one sanctioned merchant"
refined_pep_list(df) ==
    IF \E i \in DOMAIN df : df[i].MerchantName \in pep_list
    THEN pep_list
    ELSE pep_list \cup { df[1].MerchantName }

\* The names of the flags that are 1, last rule first.
triggered_rules_Reversed(flags) ==
    LET SelectRev[i \in 0..Len(flag_cols)] ==
            IF i = 0 THEN << >>
            ELSE (IF flags[flag_cols[i]] = 1 THEN << flag_cols[i] >> ELSE << >>)
                 \o SelectRev[i - 1]
    IN join(", ", SelectRev[Len(flag_cols)])

\* ', '.join([col for col in flag_cols if row[col]==1])
triggered_rules(flags) ==
    LET tripped(col) == flags[col] = 1
    IN join(", ", SelectSeq(flag_cols, tripped))

add_flags_refined(df, thr) ==
    [i \in DOMAIN df |->
        LET row == ScoredRow(df[i], refined_pep_list(df), thr)
        IN [ rec |-> row.rec,
             flags |-> row.flags,
             FlagsTripped |-> row.FlagsTripped,
             FraudScore |-> row.FraudScore,
             IsSuspicious |-> row.IsSuspicious,
             TriggeredRules |-> triggered_rules(row.flags) ]]

\* run_fraud_analysis of app.py: boolean flag columns, a count, Suspicious = count > 0
run_fraud_analysis(df) ==
    [i \in DOMAIN df |->
        LET flags == Rules(df[i], pep_list)
            count == FlagsTrippedOf(flags)
        IN [ rec |-> df[i],
             flags |-> [c \in Range(flag_cols) |-> AsInt(flags[c])],
             FraudFlagCount |-> count,
             Suspicious |-> count > 0 ]]

\* run_fraud_analysis of deepseek_python_20250624_cc417f.py: its own lists, five
\* boolean columns, Suspicious = HighAmount | RecentRegistration.
cc417f_high_risk_countries == { "Iran", "North Korea", "Syria", "Cuba" }
cc417f_high_risk_categories == { "Cryptocurrency", "Gambling", "Adult" }
cc417f_pep_list == { "John Smith", "Emma Johnson", "Michael Brown" }

\* pd.to_datetime(df['RegistrationDate']) without errors='coerce' raises on text
\* that is no date; an empty cell is NaN and becomes NaT.
to_datetime_raises(df) ==
    \E i \in DOMAIN df :
        ~IsDate(df[i].RegistrationDate) /\ df[i].RegistrationDate # ""

run_fraud_analysis_cc417f(df) ==
    [i \in DOMAIN df |->
        LET r == df[i]
            HighAmount == r.AvgTransaction > HighAmountLimit
            Recent == RecentRegistration(r.RegistrationDate)
        IN [ rec |-> r,
             flags |-> [ Sanctioned |-> r.MerchantName \in cc417f_pep_list,
                         HighRiskCountry |-> r.Country \in cc417f_high_risk_countries,
                         HighRiskCategory |->
                             r.BusinessCategory \in cc417f_high_risk_categories,
                         HighAmount |-> HighAmount,
                         RecentRegistration |-> Recent ],
             Suspicious |-> HighAmount \/ Recent ]]

\* run_fraud_analysis of merchsentai_app_with_stage4.py and
\* merchsentai_app_stepwise.py: a missing Enriched_RiskScore column is warned
\* about and filled with 0, four boolean flag columns are written into df, and
\* the summary counts the rows with any of them.
stage4_flags == << "CryptoFlag", "LuxuryFlag", "OddNameFlag", "HighScoreFlag" >>

run_fraud_analysis_with_stage4(df) ==
    LET filled == [i \in DOMAIN df |->
                     [c \in DOMAIN df[i] \cup { "Enriched_RiskScore" } |->
                         get(df[i], c, 0)]]
        flagged == [i \in DOMAIN df |->
                     [ rec |-> filled[i],
                       flags |->
                         [ CryptoFlag |-> filled[i].BusinessCategory = "Cryptocurrency",
                           LuxuryFlag |-> filled[i].BusinessCategory = "Luxury Goods"
                                          /\ filled[i].AvgTransaction > LuxuryAmountLimit,
                           OddNameFlag |-> Len(filled[i].MerchantName) % 2 = 1,
                           HighScoreFlag |-> HighRiskScore(filled[i].Enriched_RiskScore) ] ]]
    IN [ df |-> flagged,
         summary |-> [ Total |-> Len(df),
                       Flagged |-> Cardinality({ i \in DOMAIN df :
                                      \E c \in Range(stage4_flags) : flagged[i].flags[c] }) ],
         flags |-> stage4_flags,
         warned |-> \E i \in DOMAIN df : "Enriched_RiskScore" \notin DOMAIN df[i] ]

\* app.py analysis_page, "Data Enrichment": Enriched_RiskScore is drawn afresh
\* by np.random.randint(1, 100, len(df)); draws is one outcome of that call.
enrich(df, draws) ==
    [i \in DOMAIN df |->
        [c \in DOMAIN df[i] \cup { "Enriched_RiskScore" } |->
            IF c = "Enriched_RiskScore" THEN draws[i] ELSE df[i][c]]]

(***************************************************************************)
(* The inputs of the scorers.                                              *)
(***************************************************************************)
\* Merchant names: on the watchlist, on it up to letter case, or not on it; of
\* odd or of even length.
Names == { "Michael Brown", "John Smith", "Bob", "john smith" }

\* The other columns of a merchant row, at and around the rules' limits.
Profiles ==
    { [ Country |-> "Canada", BusinessCategory |-> "Retail", AvgTransaction |-> 10000,
        RegistrationDate |-> "30 days ago", Enriched_RiskScore |-> 80 ],
      [ Country |-> "Iran", BusinessCategory |-> "Cryptocurrency", AvgTransaction |-> 10001,
        RegistrationDate |-> "29 days ago", Enriched_RiskScore |-> 81 ],
      [ Country |-> "Canada", BusinessCategory |-> "Luxury Goods", AvgTransaction |-> 50001,
        RegistrationDate |-> "not a date", Enriched_RiskScore |-> 80 ],
      [ Country |-> "Canada", BusinessCategory |-> "Luxury Goods", AvgTransaction |-> 50000,
        RegistrationDate |-> "", Enriched_RiskScore |-> 100 ],
      [ Country |-> "Russia", BusinessCategory |-> "Energy", AvgTransaction |-> 100001,
        RegistrationDate |-> "29 days ago", Enriched_RiskScore |-> 0 ],
      [ Country |-> "Canada", BusinessCategory |-> "Energy", AvgTransaction |-> 100000,
        RegistrationDate |-> "400 days ago", Enriched_RiskScore |-> 1 ] }

\* Rows of a file that was never enriched: no Enriched_RiskScore value.
Unenriched ==
    { [ MerchantName |-> "Bob", Country |-> "Canada", BusinessCategory |-> "Retail",
        AvgTransaction |-> 10000, RegistrationDate |-> "30 days ago" ],
      [ MerchantName |-> "John Smith", Country |-> "Iran",
        BusinessCategory |-> "Cryptocurrency", AvgTransaction |-> 10001,
        RegistrationDate |-> "29 days ago" ] }

Records == { [MerchantName |-> n] @@ p : n \in Names, p \in Profiles } \cup Unenriched

\* st.slider("Suspicious Threshold (%)", 0, 100, 50, step=5), a few of its stops
Thresholds == { 0, 45, 50, 85, 100 }

\* Outcomes of np.random.randint(1, 100, len(df)) on either side of the rule's limit
RiskDraws == { 80, 81 }

\* "no earlier run": a scorer never returns an empty frame for a non-empty one
NoRun == << >>

ScoreInit ==
    /\ batch = << >>
    /\ pc = "load"
    /\ copy = "none"
    /\ threshold = DefaultThreshold
    /\ out = << >>
    /\ prev = NoRun

\* One more row of the uploaded file.
AddRecord ==
    /\ pc = "load"
    /\ Len(batch) < MaxBatch
    /\ \E r \in Records : batch' = Append(batch, r)
    /\ UNCHANGED << pc, copy, threshold, out, prev, txVars, cbVars, scrVars, wizVars, sessVars >>

\* merchsentai_app_final.py: add_flags(df)
RunAddFlagsFinal ==
    /\ pc = "load"
    /\ batch # << >>
    /\ out' = add_flags_final(batch)
    /\ pc' = "scored"
    /\ copy' = "final"
    /\ UNCHANGED << batch, threshold, prev, txVars, cbVars, scrVars, wizVars, sessVars >>

\* merchsentai_app_final_visual.py / merchsentai_appp.py: add_flags(df, threshold)
RunAddFlags ==
    /\ pc = "load"
    /\ batch # << >>
    /\ \E t \in Thresholds :
          /\ threshold' = t
          /\ out' = add_flags(batch, t)
    /\ pc' = "scored"
    /\ copy' = "visual"
    /\ UNCHANGED << batch, prev, txVars, cbVars, scrVars, wizVars, sessVars >>

\* merchsentai_app_refined.py: add_flags(st.session_state.df, threshold)
RunAddFlagsRefined ==
    /\ pc = "load"
    /\ batch # << >>
    /\ \E t \in Thresholds :
          /\ threshold' = t
          /\ out' = add_flags_refined(batch, t)
    /\ pc' = "scored"
    /\ copy' = "refined"
    /\ UNCHANGED << batch, prev, txVars, cbVars, scrVars, wizVars, sessVars >>

\* app.py analysis_page: one run of the script over st.session_state.data, which
\* enriches a copy of the data and scores it.  Streamlit runs the script again on
\* every interaction, over the same data; the model follows a first run and one
\* rerun.
AnalysisPageApp ==
    /\ batch # << >>
    /\ \/ pc = "load" /\ prev' = NoRun
       \/ pc = "scored" /\ copy = "app" /\ prev = NoRun /\ prev' = out
    /\ \E draws \in [DOMAIN batch -> RiskDraws] :
          out' = run_fraud_analysis(enrich(batch, draws))
    /\ pc' = "scored"
    /\ copy' = "app"
    /\ UNCHANGED << batch, threshold, txVars, cbVars, scrVars, wizVars, sessVars >>

\* deepseek_python_20250624_cc417f.py analysis_page: df, results =
\* run_fraud_analysis(df), or the exception of pd.to_datetime.
RunFraudAnalysisCc417f ==
    /\ pc = "load"
    /\ batch # << >>
    /\ IF to_datetime_raises(batch)
       THEN pc' = "raised" /\ out' = NoRun
       ELSE pc' = "scored" /\ out' = run_fraud_analysis_cc417f(batch)
    /\ copy' = "cc417f"
    /\ UNCHANGED << batch, threshold, prev, txVars, cbVars, scrVars, wizVars, sessVars >>

\* merchsentai_app_with_stage4.py / merchsentai_app_stepwise.py:
\* df, summary, flags = run_fraud_analysis(df)
RunFraudAnalysisWithStage4 ==
    /\ pc = "load"
    /\ batch # << >>
    /\ out' = run_fraud_analysis_with_stage4(batch).df
    /\ pc' = "analysed"
    /\ copy' = "with_stage4"
    /\ UNCHANGED << batch, threshold, prev, txVars, cbVars, scrVars, wizVars, sessVars >>

TxIdle ==
    /\ txs = << >>
    /\ hasLoc = FALSE
    /\ txpc = "off"
    /\ txOut = << >>

CbIdle ==
    /\ cbs = << >>
    /\ cbpc = "off"
    /\ cbOut = << >>

ScrIdle ==
    /\ sdf = << >>
    /\ spc = "off"
    /\ sOut = << >>
    /\ processor = "none"
    /\ fm = << >>

WizIdle ==
    /\ wdf = << >>
    /\ wpc = "off"
    /\ wOut = << >>

SessIdle ==
    /\ app = "off"
    /\ ss = << >>
    /\ shown = "off"
    /\ runs = << >>

Init == ScoreInit /\ TxIdle /\ CbIdle /\ ScrIdle /\ WizIdle /\ SessIdle

Next ==
    \/ AddRecord
    \/ RunAddFlagsFinal
    \/ RunAddFlags
    \/ RunAddFlagsRefined
    \/ AnalysisPageApp
    \/ RunFraudAnalysisCc417f
    \/ RunFraudAnalysisWithStage4

Spec == Init /\ [][Next]_vars

(***************************************************************************)
(* api/analysis.py: analyze_fraud over a transaction log.                  *)
(*                                                                         *)
(* The log is kept as a count of rows per kind of row: every aggregate of  *)
(* analyze_fraud (groupby size, nunique) is independent of the row order.  *)
(***************************************************************************)
BurstLimit == 10
LocationLimit == 2
MinutesPerHour == 60

\* pd.to_datetime(col, errors='coerce'): a timestamp is the text of a time of the
\* log's day; text that is no time is coerced to NaT.
IsTime(timestamp) == timestamp \in { "00:59", "01:00" }

\* The parsed timestamp, in minutes since midnight.
to_datetime(timestamp) ==
    CASE timestamp = "00:59" -> 59
      [] timestamp = "01:00" -> 60

\* The rows of the log: merchant, timestamp text, merchant_location.
TxKinds ==
    { [ merchant |-> m, timestamp |-> t, merchant_location |-> "Toronto" ] :
          m \in { "M1", "M2" }, t \in { "00:59", "01:00" } }
    \cup { [ merchant |-> "M1", timestamp |-> "00:59", merchant_location |-> l ] :
          l \in { "Ottawa", "Calgary" } }
    \cup { [ merchant |-> "M1", timestamp |-> "n/a", merchant_location |-> "Calgary" ],
           [ merchant |-> "", timestamp |-> "00:59", merchant_location |-> "Toronto" ] }

TxMerchants == { k.merchant : k \in TxKinds } \ { "" }

\* len(df)
Rows(df) == SumOver(df, DOMAIN df)

\* An empty cell of the merchant column is read as NaN.
IsNull(merchant) == merchant = ""

\* df.dropna(subset=[timestamp_col, merchant_col]) after the coercion: the rows
\* whose timestamp did not parse (NaT) or whose merchant is missing are gone
dropna(df) ==
    [k \in DOMAIN df |->
        IF IsTime(k.timestamp) /\ ~IsNull(k.merchant) THEN df[k] ELSE 0]

\* The merchants that still have rows in df.
MerchantsOf(df) == { k.merchant : k \in { x \in DOMAIN df : df[x] > 0 } }

\* pd.Grouper(key=timestamp_col, freq='1h'): the clock hour a timestamp falls in
HourBin(timestamp) == to_datetime(timestamp) \div MinutesPerHour

\* A window of one hour that starts at the merchant's first transaction instead.
tx_counts_FromFirst(df) ==
    [ m \in MerchantsOf(df) |->
        LET mine == { k \in DOMAIN df : k.merchant = m /\ df[k] > 0 }
            first == CHOOSE t \in { to_datetime(k.timestamp) : k \in mine } :
                         \A k \in mine : t <= to_datetime(k.timestamp)
            bin(k) == (to_datetime(k.timestamp) - first) \div MinutesPerHour
        IN [ h \in { bin(k) : k \in mine } |->
               SumOver(df, { k \in mine : bin(k) = h }) ] ]

\* df.groupby([merchant_col, pd.Grouper(key=timestamp_col, freq='1h')]).size()
tx_counts(df) ==
    [ m \in MerchantsOf(df) |->
        LET mine == { k \in DOMAIN df : k.merchant = m /\ df[k] > 0 }
        IN [ h \in { HourBin(k.timestamp) : k \in mine } |->
               SumOver(df, { k \in mine : HourBin(k.timestamp) = h }) ] ]

\* tx_counts[tx_counts > 10].reset_index()[merchant_col].unique()
burst_merchants_AtLeast(counts) ==
    { m \in DOMAIN counts : \E h \in DOMAIN counts[m] : counts[m][h] >= BurstLimit }

burst_merchants(counts) ==
    { m \in DOMAIN counts : \E h \in DOMAIN counts[m] : counts[m][h] > BurstLimit }

\* df.groupby(merchant_col)['merchant_location'].nunique()
location_flags(df) ==
    [ m \in MerchantsOf(df) |->
        Cardinality({ k.merchant_location :
                        k \in { x \in DOMAIN df : x.merchant = m /\ df[x] > 0 } }) ]

\* location_flags[location_flags > 2].index.tolist(), or [] without the column
flagged_locations(df, loc) ==
    IF loc
    THEN { m \in MerchantsOf(df) : location_flags(df)[m] > LocationLimit }
    ELSE {}

\* analyze_fraud(df): the returned frame (rows per kind, each with its
\* fraud_flag) and the two local lists the flag is computed from.
analyze_fraud(df, loc) ==
    LET kept == dropna(df)
        burst == burst_merchants(tx_counts(kept))
        locs == flagged_locations(kept, loc)
    IN [ df |-> [ k \in DOMAIN kept |->
                    [ rows |-> kept[k],
                      fraud_flag |-> IF k.merchant \in burst \/ k.merchant \in locs
                                     THEN "HIGH" ELSE "LOW" ] ],
         burst_merchants |-> burst,
         flagged_locations |-> locs ]

TxInit ==
    /\ txs = [k \in TxKinds |-> 0]
    /\ hasLoc \in BOOLEAN
    /\ txpc = "input"
    /\ txOut = << >>

\* One more row of the uploaded log.
AddTx ==
    /\ txpc = "input"
    /\ Rows(txs) < MaxTx
    /\ \E k \in TxKinds : txs' = [txs EXCEPT ![k] = @ + 1]
    /\ UNCHANGED << hasLoc, txpc, txOut, scoreVars, cbVars, scrVars, wizVars, sessVars >>

AnalyzeFraud ==
    /\ txpc = "input"
    /\ txOut' = analyze_fraud(txs, hasLoc)
    /\ txpc' = "analyzed"
    /\ UNCHANGED << txs, hasLoc, scoreVars, cbVars, scrVars, wizVars, sessVars >>

ScoreIdle ==
    /\ batch = << >>
    /\ pc = "off"
    /\ copy = "none"
    /\ threshold = DefaultThreshold
    /\ out = << >>
    /\ prev = << >>

InitTx == ScoreIdle /\ TxInit /\ CbIdle /\ ScrIdle /\ WizIdle /\ SessIdle

NextTx ==
    \/ AddTx
    \/ AnalyzeFraud

SpecTx == InitTx /\ [][NextTx]_vars

(***************************************************************************)
(* detect_chargeback_fraud (merchsentai_app_updated.py and                 *)
(* deepseek_python_20250625_7c2111.py).                                    *)
(*                                                                         *)
(* A float64 is an exact fraction [k |-> "num", n, d] (d > 0, lowest       *)
(* terms), NaN or +inf; the rounding of finite results is not modelled.    *)
(* The standard deviation is kept as its square, the population variance.  *)
(***************************************************************************)
RECURSIVE GCD(_, _)
GCD(a, b) == IF b = 0 THEN a ELSE GCD(b, a % b)

NaN == [k |-> "nan"]
Inf == [k |-> "inf"]

\* The fraction n / d, d # 0, in lowest terms.
Frac(n, d) ==
    LET g == GCD(Abs(n), Abs(d))
        sgn == IF d < 0 THEN -1 ELSE 1
    IN [k |-> "num", n |-> sgn * (n \div g), d |-> sgn * (d \div g)]

Zero == Frac(0, 1)

IsNum(x) == x.k = "num"

\* Column / column on numbers: x / 0 is inf, 0 / 0 is NaN, no exception.
Divide(a, b) ==
    IF b # 0 THEN Frac(a, b)
    ELSE IF a = 0 THEN NaN ELSE Inf

LCM(a, b) == (a \div GCD(a, b)) * b

\* x + y, x - y and x * y of two fractions
FAdd(x, y) ==
    LET l == LCM(x.d, y.d)
    IN Frac(x.n * (l \div x.d) + y.n * (l \div y.d), l)

FSub(x, y) == FAdd(x, Frac(-y.n, y.d))

FMul(x, y) ==
    LET a == Frac(x.n, y.d)
        b == Frac(y.n, x.d)
    IN Frac(a.n * b.n, a.d * b.d)

\* x < y of two fractions
FLess(x, y) ==
    LET l == LCM(x.d, y.d)
    IN x.n * (l \div x.d) < y.n * (l \div y.d)

\* series > n / d: False on NaN, True on inf
GreaterThan(x, n, d) ==
    CASE x.k = "nan" -> FALSE
      [] x.k = "inf" -> TRUE
      [] OTHER -> FLess(Frac(n, d), x)

RateLimitPercent == 5
SpikeLimit == 10
VolRatioLimitPercent == 10
ZLimit == 2

\* df['ChargebackRate'] = df['NumChargebacks'] / df['NumTransactions']
ChargebackRate(m) == Divide(m.NumChargebacks, m.NumTransactions)

\* df['DisputeDelta'] = df['ChargebacksThisMonth'] - df['ChargebacksLastMonth']
DisputeDelta(m) == m.ChargebacksThisMonth - m.ChargebacksLastMonth

\* df['ChargebackVolRatio'] = df['ChargebackAmount'] / df['TotalTransactionVolume']
ChargebackVolRatio(m) == Divide(m.ChargebackAmount, m.TotalTransactionVolume)

\* The sum of f[k] over the rows of the frame df (df[k] rows of kind k), for the
\* kinds in S.
RECURSIVE FSum(_, _, _)
FSum(f, df, S) ==
    IF S = {} THEN Zero
    ELSE LET x == CHOOSE y \in S : TRUE
         IN FAdd(FMul(Frac(df[x], 1), f[x]), FSum(f, df, S \ {x}))

\* The kinds of row present in df.
Present(df) == { k \in DOMAIN df : df[k] > 0 }

\* The present kinds whose rate is not NaN: mean() and std() skip NaN.
Counted(df) == { k \in Present(df) : ChargebackRate(k).k # "nan" }

\* df['ChargebackRate'].mean()
rate_mean(df) ==
    LET S == Counted(df)
    IN IF S = {} THEN NaN
       ELSE IF \E k \in S : ChargebackRate(k).k = "inf" THEN Inf
       ELSE FMul(FSum([k \in S |-> ChargebackRate(k)], df, S),
                 Frac(1, SumOver(df, S)))

\* df['ChargebackRate'].std(ddof=0), squared: the mean of the squared deviations;
\* NaN as soon as a rate is inf (inf - inf)
rate_var(df) ==
    LET S == Counted(df)
        mean == rate_mean(df)
    IN IF S = {} THEN NaN
       ELSE IF ~IsNum(mean) THEN NaN
       ELSE LET dev2 == [k \in S |->
                            LET dv == FSub(ChargebackRate(k), mean) IN FMul(dv, dv)]
            IN FMul(FSum(dev2, df, S), Frac(1, SumOver(df, S)))

\* df['ChargebackRateZ'] = (df['ChargebackRate'] - rate_mean) / rate_std, kept as
\* the deviation dev and the variance var it is divided by the root of:
\* NaN when a term is NaN, when inf - inf arises, and for 0 / 0 when std is 0.
\* The quotient is computed in binary floating point: ulp = 1 when the computed
\* value lies a unit in the last place further from 0 than the exact one (as
\* for the rates 0.5, 0.5, 0.5, 0.5, 0.1, whose last z is -2.0000000000000004),
\* ulp = 0 when it does not.
ChargebackRateZ(m, df, ulp) ==
    LET rate == ChargebackRate(m)
        mean == rate_mean(df)
        var == rate_var(df)
    IN IF ~IsNum(rate) \/ ~IsNum(mean) \/ ~IsNum(var) THEN NaN
       ELSE IF var = Zero THEN NaN
       ELSE [k |-> "z", dev |-> FSub(rate, mean), var |-> var, ulp |-> ulp]

\* Series.abs() > root of q, for a z that is a number: the exact z^2 is above q,
\* or it is q and the computed z lies beyond the exact one.
AbsAbove(z, q) ==
    LET bound == FMul(Frac(q, 1), z.var)
        dev2 == FMul(z.dev, z.dev)
    IN \/ FLess(bound, dev2)
       \/ ~FLess(dev2, bound) /\ z.ulp = 1

\* The outlier rule at three standard deviations instead of two.
OutlierZ_ThreeSigma(z) == z.k = "z" /\ AbsAbove(z, 9)

\* df['ChargebackRateZ'].abs() > 2: dev^2 > 2^2 * var; False on NaN
OutlierZ(z) == z.k = "z" /\ AbsAbove(z, ZLimit * ZLimit)

\* The four rule outcomes of one row.
ChargebackFlags(m, df, ulp) ==
    [ HighChargebackRateFlag |-> GreaterThan(ChargebackRate(m), RateLimitPercent, 100),
      ChargebackSpikeFlag |-> DisputeDelta(m) > SpikeLimit,
      HighChargebackVolFlag |->
          GreaterThan(ChargebackVolRatio(m), VolRatioLimitPercent, 100),
      ChargebackOutlierZFlag |-> OutlierZ(ChargebackRateZ(m, df, ulp)) ]

\* detect_chargeback_fraud(df) of merchsentai_app_updated.py: the columns it
\* writes into df, per kind of row, the Series it returns, and its locals.
detect_chargeback_fraud(df, ulp) ==
    [ columns |-> [ m \in Present(df) |->
                      [ ChargebackRate |-> ChargebackRate(m),
                        DisputeDelta |-> DisputeDelta(m),
                        ChargebackVolRatio |-> ChargebackVolRatio(m),
                        ChargebackRateZ |-> ChargebackRateZ(m, df, ulp) ]
                      @@ ChargebackFlags(m, df, ulp) ],
      returned |-> [ m \in Present(df) |->
                      LET f == ChargebackFlags(m, df, ulp)
                      IN \/ f.HighChargebackRateFlag
                         \/ f.ChargebackSpikeFlag
                         \/ f.HighChargebackVolFlag
                         \/ f.ChargebackOutlierZFlag ],
      rate_mean |-> rate_mean(df),
      rate_var |-> rate_var(df),
      ulp |-> ulp ]

\* detect_chargeback_fraud(df) of deepseek_python_20250625_7c2111.py: the four
\* metric columns are written into df, the four rule outcomes are combined in
\* the local `flags` and only their disjunction is returned.
detect_chargeback_fraud_7c2111(df, ulp) ==
    [ columns |-> [ m \in Present(df) |->
                      [ ChargebackRate |-> ChargebackRate(m),
                        DisputeDelta |-> DisputeDelta(m),
                        ChargebackVolRatio |-> ChargebackVolRatio(m),
                        ChargebackRateZ |-> ChargebackRateZ(m, df, ulp) ] ],
      returned |-> [ m \in Present(df) |->
                      \/ GreaterThan(ChargebackRate(m), RateLimitPercent, 100)
                      \/ DisputeDelta(m) > SpikeLimit
                      \/ GreaterThan(ChargebackVolRatio(m), VolRatioLimitPercent, 100)
                      \/ OutlierZ(ChargebackRateZ(m, df, ulp)) ],
      rate_mean |-> rate_mean(df),
      rate_var |-> rate_var(df),
      ulp |-> ulp ]

\* Merchant rows: their aggregates at and around the rules' limits, and rows
\* without transactions.
CbKinds ==
    { [ NumTransactions |-> 100, NumChargebacks |-> 1, ChargebacksLastMonth |-> 0,
        ChargebacksThisMonth |-> 1, ChargebackAmount |-> 10,
        TotalTransactionVolume |-> 1000 ],
      [ NumTransactions |-> 10, NumChargebacks |-> 5, ChargebacksLastMonth |-> 0,
        ChargebacksThisMonth |-> 10, ChargebackAmount |-> 100,
        TotalTransactionVolume |-> 1000 ],
      [ NumTransactions |-> 100, NumChargebacks |-> 5, ChargebacksLastMonth |-> 1,
        ChargebacksThisMonth |-> 12, ChargebackAmount |-> 0,
        TotalTransactionVolume |-> 1000 ],
      [ NumTransactions |-> 100, NumChargebacks |-> 1, ChargebacksLastMonth |-> 5,
        ChargebacksThisMonth |-> 0, ChargebackAmount |-> 101,
        TotalTransactionVolume |-> 1000 ],
      [ NumTransactions |-> 0, NumChargebacks |-> 0, ChargebacksLastMonth |-> 0,
        ChargebacksThisMonth |-> 0, ChargebackAmount |-> 0,
        TotalTransactionVolume |-> 0 ],
      [ NumTransactions |-> 0, NumChargebacks |-> 1, ChargebacksLastMonth |-> 0,
        ChargebacksThisMonth |-> 1, ChargebackAmount |-> 10,
        TotalTransactionVolume |-> 1000 ],
      [ NumTransactions |-> 10, NumChargebacks |-> 1, ChargebacksLastMonth |-> 0,
        ChargebacksThisMonth |-> 1, ChargebackAmount |-> 10,
        TotalTransactionVolume |-> 1000 ] }

\* How the computed z-scores of one run lie to the exact ones.
Ulps == { 0, 1 }

CbInit ==
    /\ cbs = [k \in CbKinds |-> 0]
    /\ cbpc = "input"
    /\ cbOut = << >>

\* One more merchant row of the uploaded summary.
AddMerchant ==
    /\ cbpc = "input"
    /\ SumOver(cbs, CbKinds) < MaxMerchants
    /\ \E k \in CbKinds : cbs' = [cbs EXCEPT ![k] = @ + 1]
    /\ UNCHANGED << cbpc, cbOut, scoreVars, txVars, scrVars, wizVars, sessVars >>

\* flags_df['ChargebackFraudFlag'] = detect_chargeback_fraud(df)
DetectChargebackFraud ==
    /\ cbpc = "input"
    /\ Present(cbs) # {}
    /\ \E ulp \in Ulps : cbOut' = detect_chargeback_fraud(cbs, ulp)
    /\ cbpc' = "detected"
    /\ UNCHANGED << cbs, scoreVars, txVars, scrVars, wizVars, sessVars >>

\* fraud_flags['ChargebackFraud'] = detect_chargeback_fraud(df) of
\* deepseek_python_20250625_7c2111.py
DetectChargebackFraud7c2111 ==
    /\ cbpc = "input"
    /\ Present(cbs) # {}
    /\ \E ulp \in Ulps : cbOut' = detect_chargeback_fraud_7c2111(cbs, ulp)
    /\ cbpc' = "detected_7c2111"
    /\ UNCHANGED << cbs, scoreVars, txVars, scrVars, wizVars, sessVars >>

InitCb == ScoreIdle /\ TxIdle /\ CbInit /\ ScrIdle /\ WizIdle /\ SessIdle

NextCb ==
    \/ AddMerchant
    \/ DetectChargebackFraud
    \/ DetectChargebackFraud7c2111

SpecCb == InitCb /\ [][NextCb]_vars

(***************************************************************************)
(* api/screening.py: fuzzy_match and screen_merchants.                     *)
(*                                                                         *)
(* A string is a TLA+ string. rapidfuzz's fuzz.token_sort_ratio is         *)
(* computed as the library computes it: the tokens of both strings are     *)
(* sorted and joined by a blank, and the score is the normalized Indel     *)
(* similarity 100 * 2 * LCS / (len1 + len2), kept as the exact fraction.   *)
(* Before version 3.0 rapidfuzz preprocesses both strings by default       *)
(* (utils.default_process), since 3.0 it does not; the repository pins no  *)
(* version, so the preprocessing is whichever of the two is installed.     *)
(***************************************************************************)
SANCTION_LIST ==
    << "Walmart", "Best Buy", "Target", "Amazon", "Shopify", "eBay", "Costco",
       "Evil Corp", "Fraudulent Co", "Scammy Store", "Sanctioned Entity",
       "Money Laundering Services" >>

HIGH_RISK_CATEGORIES ==
    { "Cryptocurrency", "Gambling", "Adult Entertainment", "Firearms",
      "Explosives", "Unlicensed Pharma", "Luxury Goods", "Pawn Shop" }

HIGH_RISK_COUNTRIES == { "North Korea", "Iran", "Syria", "Russia", "Venezuela", "Myanmar" }

ADVERSE_KEYWORDS ==
    { "fraud", "scam", "money laundering", "illegal", "bribery", "corruption",
      "smuggling", "black market", "embezzlement", "pyramid", "lawsuit", "arrest" }

\* fuzzy_match(name, name_list, threshold=80)
FuzzyThreshold == 80

\* The characters of the inputs, in code point order.
Alphabet == " -./:ABCDEFGHIJKLMNOPQRSTUVWXYZabcdefghijklmnopqrstuvwxyz"

Char(s, i) == SubSeq(s, i, i)

\* ord(c), as the place of c in Alphabet
OrdOf ==
    [c \in { Char(Alphabet, i) : i \in 1..Len(Alphabet) } |->
        CHOOSE i \in 1..Len(Alphabet) : Char(Alphabet, i) = c]

Ord(c) == OrdOf[c]

IsUpper(c) == Ord(c) >= Ord("A") /\ Ord(c) <= Ord("Z")

IsAlnum(c) == Ord(c) >= Ord("A")

LowerChar(c) ==
    IF IsUpper(c) THEN Char(Alphabet, Ord(c) + (Ord("a") - Ord("A"))) ELSE c

\* str.lower()
RECURSIVE lower(_)
lower(s) == IF s = "" THEN "" ELSE LowerChar(Head(s)) \o lower(Tail(s))

\* str.strip()
RECURSIVE strip(_)
strip(s) ==
    IF s = "" THEN ""
    ELSE IF Head(s) = " " THEN strip(Tail(s))
    ELSE IF Char(s, Len(s)) = " " THEN strip(SubSeq(s, 1, Len(s) - 1))
    ELSE s

\* Every character that is no letter or digit becomes a blank.
RECURSIVE alnum_only(_)
alnum_only(s) ==
    IF s = "" THEN ""
    ELSE (IF IsAlnum(Head(s)) THEN Head(s) ELSE " ") \o alnum_only(Tail(s))

\* rapidfuzz.utils.default_process: lower case, non-alphanumerics to blanks, trimmed
default_process(s) == strip(alnum_only(lower(s)))

\* The preprocessing process.extract applies when none is passed.
Preprocess(s, proc) == IF proc = "default_process" THEN default_process(s) ELSE s

\* str.split(): the maximal runs of non-blank characters
RECURSIVE split(_, _, _)
split(s, cur, acc) ==
    LET closed == IF cur = "" THEN acc ELSE Append(acc, cur)
    IN IF s = "" THEN closed
       ELSE IF Head(s) = " " THEN split(Tail(s), "", closed)
       ELSE split(Tail(s), cur \o Head(s), acc)

\* a < b of two strings: by code point, a proper prefix first
RECURSIVE StrLess(_, _)
StrLess(a, b) ==
    IF b = "" THEN FALSE
    ELSE IF a = "" THEN TRUE
    ELSE IF Head(a) = Head(b) THEN StrLess(Tail(a), Tail(b))
    ELSE Ord(Head(a)) < Ord(Head(b))

\* sorted(tokens)
RECURSIVE sorted(_)
sorted(tokens) ==
    IF tokens = << >> THEN << >>
    ELSE LET rest == sorted(Tail(tokens))
             t == Head(tokens)
             before == SelectSeq(rest, LAMBDA u : StrLess(u, t))
             after == SelectSeq(rest, LAMBDA u : ~StrLess(u, t))
         IN before \o << t >> \o after

Max(a, b) == IF a >= b THEN a ELSE b

\* One row of the longest-common-subsequence table: cur[j + 1] is the LCS
\* length of the characters of a read so far, c included, and the first j
\* characters of b; above is the row before c was read.
RECURSIVE LcsRow(_, _, _, _)
LcsRow(above, c, b, cur) ==
    IF Len(cur) = Len(b) + 1 THEN cur
    ELSE LET j == Len(cur)
         IN LcsRow(above, c, b,
                   Append(cur, IF c = Char(b, j) THEN above[j] + 1
                               ELSE Max(above[j + 1], cur[j])))

RECURSIVE LcsTable(_, _, _)
LcsTable(a, b, above) ==
    IF a = "" THEN above[Len(b) + 1]
    ELSE LcsTable(Tail(a), b, LcsRow(above, Head(a), b, << 0 >>))

\* The length of the longest common subsequence of a and b.
lcs_seq_similarity(a, b) == LcsTable(a, b, [j \in 1..(Len(b) + 1) |-> 0])

\* fuzz.ratio(a, b): 100 * 2 * LCS / (len(a) + len(b)) as the fraction n / d,
\* and 100 for two empty strings.
ratio(a, b) ==
    IF Len(a) + Len(b) = 0 THEN [n |-> 100, d |-> 1]
    ELSE [n |-> 200 * lcs_seq_similarity(a, b), d |-> Len(a) + Len(b)]

\* fuzz.token_sort_ratio(a, b) after the default preprocessing
token_sort_ratio(a, b, proc) ==
    ratio(join(" ", sorted(split(Preprocess(a, proc), "", << >>))),
          join(" ", sorted(split(Preprocess(b, proc), "", << >>))))

\* score >= threshold
ScoreAtLeast(score, cutoff) == score.n >= cutoff * score.d

ScoreLess(x, y) == x.n * y.d < y.n * x.d

\* The best-scoring choice among name_list[i..], or best when none scores
\* higher: (choice, score, index), the first of equal scores.
RECURSIVE best_match(_, _, _, _, _)
best_match(name, name_list, proc, i, best) ==
    IF i > Len(name_list) THEN best
    ELSE LET score == token_sort_ratio(name, name_list[i], proc)
         IN best_match(name, name_list, proc, i + 1,
                       IF ScoreLess(best[2], score)
                       THEN << name_list[i], score, i - 1 >> ELSE best)

\* process.extract(name, name_list, scorer=fuzz.token_sort_ratio, limit=1): the
\* best-scoring choice as [(choice, score, index)], or []
extract(name, name_list, proc) ==
    IF name_list = << >> THEN << >>
    ELSE << best_match(name, name_list, proc, 2,
                       << name_list[1],
                          token_sort_ratio(name, name_list[1], proc), 0 >>) >>

\* fuzzy_match(name, name_list, threshold)
fuzzy_match(name, name_list, cutoff, proc) ==
    LET matches == extract(name, name_list, proc)
    IN IF matches # << >> THEN ScoreAtLeast(matches[1][2], cutoff) ELSE FALSE

\* keyword in website
contains(s, sub) ==
    \E i \in 1..(Len(s) - Len(sub) + 1) : SubSeq(s, i, i + Len(sub) - 1) = sub

\* pd.read_csv reads an empty cell as NaN, a float.
IsNaN(cell) == cell = ""

\* The sanction reason with both tests made independently of each other.
sanction_reasons_ExactAndFuzzy(name, proc) ==
    (IF name \in Range(SANCTION_LIST)
     THEN << "Exact match: sanction list" >> ELSE << >>)
    \o (IF fuzzy_match(name, SANCTION_LIST, FuzzyThreshold, proc)
        THEN << "Fuzzy match: sanction list" >> ELSE << >>)

\* if name in SANCTION_LIST: ... elif fuzzy_match(name, SANCTION_LIST): ...
sanction_reasons(name, proc) ==
    IF name \in Range(SANCTION_LIST) THEN << "Exact match: sanction list" >>
    ELSE IF fuzzy_match(name, SANCTION_LIST, FuzzyThreshold, proc)
         THEN << "Fuzzy match: sanction list" >>
         ELSE << >>

\* The list `reasons` of one row of screen_merchants.
reasons(row, proc) ==
    LET website == lower(row.merchant_website)
    IN sanction_reasons(row.merchant_name, proc)
       \o (IF row.merchant_category \in HIGH_RISK_CATEGORIES
           THEN << "High risk category: " \o row.merchant_category >> ELSE << >>)
       \o (IF row.merchant_country \in HIGH_RISK_COUNTRIES
           THEN << "High risk country: " \o row.merchant_country >> ELSE << >>)
       \o (IF \E keyword \in ADVERSE_KEYWORDS : contains(website, keyword)
           THEN << "Adverse media keywords in website" >> ELSE << >>)

\* "; ".join(reasons) if reasons else "Clear"
screening_flag(row, proc) ==
    LET rs == reasons(row, proc)
    IN IF rs # << >> THEN join("; ", rs) ELSE "Clear"

\* The rows iterrows() yields before row.get("merchant_website", "").lower()
\* raises AttributeError on a NaN cell: all of them when it never does.
RowsScreened(df) ==
    IF \E i \in DOMAIN df.cells : IsNaN(df.cells[i].merchant_website)
    THEN (CHOOSE i \in DOMAIN df.cells :
             /\ IsNaN(df.cells[i].merchant_website)
             /\ \A j \in 1..(i - 1) : ~IsNaN(df.cells[j].merchant_website)) - 1
    ELSE Len(df.cells)

\* screen_merchants(df): the frame df after the call; df.at[_, 'screening_flag']
\* has written the value of every row the loop got through into df itself.
screen_merchants(df, proc) ==
    [df EXCEPT !.screening_flag =
        [i \in 1..RowsScreened(df) |-> screening_flag(df.cells[i], proc)]]

\* The rows of the enriched frame: a sanction list name as listed, in another
\* case, with its words in another order, and names off the list; categories,
\* countries and websites on and off the risk lists; an empty website cell.
ScreenKinds ==
    { [ merchant_name |-> "Walmart", merchant_category |-> "Department Store",
        merchant_country |-> "CA", merchant_website |-> "https://www.walmart.com" ],
      [ merchant_name |-> "walmart", merchant_category |-> "Department Store",
        merchant_country |-> "CA", merchant_website |-> "https://www.walmart.com" ],
      [ merchant_name |-> "ebay", merchant_category |-> "Online Retail",
        merchant_country |-> "CA", merchant_website |-> "https://www.ebay.com" ],
      [ merchant_name |-> "Corp Evil", merchant_category |-> "Gambling",
        merchant_country |-> "Russia", merchant_website |-> "https://SCAM-deals.example" ],
      [ merchant_name |-> "Starbucks", merchant_category |-> "Coffee Shops",
        merchant_country |-> "Iran", merchant_website |-> "https://www.starbucks.com" ],
      [ merchant_name |-> "Loblaws", merchant_category |-> "Grocery Store",
        merchant_country |-> "CA", merchant_website |-> "https://www.loblaws.ca" ],
      [ merchant_name |-> "Netflix", merchant_category |-> "Streaming Services",
        merchant_country |-> "CA", merchant_website |-> "" ] }

\* The arguments of the calls of fuzzy_match on its own.
FuzzyNames == { "Acme Corporation", "Acme Corp", "Corp Acme", "acme corp", "Zeta Inc" }
FuzzyLists == { << >>, << "Acme Corp" >>, << "Zeta Ltd", "Acme Corp" >> }
FuzzyThresholds == { 72, 73, 80, 100 }

ScrInit ==
    /\ sdf = [cells |-> << >>, screening_flag |-> << >>]
    /\ spc = "input"
    /\ sOut = << >>
    /\ processor \in { "none", "default_process" }
    /\ fm = << >>

\* One more row of the frame handed to the screening step.
AddScreenRow ==
    /\ spc = "input"
    /\ fm = << >>
    /\ Len(sdf.cells) < MaxRows
    /\ \E k \in ScreenKinds : sdf' = [sdf EXCEPT !.cells = Append(@, k)]
    /\ UNCHANGED << spc, sOut, processor, fm, scoreVars, txVars, cbVars, wizVars, sessVars >>

\* screened_df = screen_merchants(st.session_state["enriched_df"]): the frame
\* is written in place and returned, or the call raises part-way.
ScreenMerchants ==
    /\ spc = "input"
    /\ sdf' = screen_merchants(sdf, processor)
    /\ IF RowsScreened(sdf) = Len(sdf.cells)
       THEN spc' = "screened" /\ sOut' = << sdf' >>
       ELSE spc' = "raised" /\ sOut' = << >>
    /\ UNCHANGED << processor, fm, scoreVars, txVars, cbVars, wizVars, sessVars >>

\* One call fuzzy_match(name, name_list, threshold).
FuzzyMatchCall ==
    /\ spc = "input"
    /\ sdf.cells = << >>
    /\ fm = << >>
    /\ \E name \in FuzzyNames : \E name_list \in FuzzyLists : \E thr \in FuzzyThresholds :
          fm' = << [ name |-> name, name_list |-> name_list, threshold |-> thr,
                     result |-> fuzzy_match(name, name_list, thr, processor) ] >>
    /\ UNCHANGED << sdf, spc, sOut, processor, scoreVars, txVars, cbVars, wizVars, sessVars >>

InitScreen == ScoreIdle /\ TxIdle /\ CbIdle /\ ScrInit /\ WizIdle /\ SessIdle

NextScreen ==
    \/ AddScreenRow
    \/ ScreenMerchants
    \/ FuzzyMatchCall

SpecScreen == InitScreen /\ [][NextScreen]_vars

(***************************************************************************)
(* apply_fraud_logic (api/screening.py and api/__pycache__/                *)
(* app_final_full.py): four flags, their count, and the bucket pd.cut      *)
(* puts the count in.                                                      *)
(***************************************************************************)
VolumeLimit == 10000
InactiveDays == 30

\* The columns apply_fraud_logic reads.
needed ==
    << "transaction_volume", "transaction_region", "mcc_code",
       "days_since_last_txn", "region" >>

\* pd.cut(..., [-1, 1, 2, 4], labels=['Low', 'Medium', 'High'])
risk_bins == << -1, 1, 2, 4 >>
risk_labels_Swapped == << "Low", "High", "Medium" >>
risk_labels == << "Low", "Medium", "High" >>

\* The value of a categorical cell that falls in no bin.
NoCategory == "NaN"

\* str(n) of a non-negative integer
RECURSIVE str(_)
str(n) ==
    LET digit == SubSeq("0123456789", (n % 10) + 1, (n % 10) + 1)
    IN IF n < 10 THEN digit ELSE str(n \div 10) \o digit

\* s.startswith(prefix)
startswith(s, prefix) ==
    Len(s) >= Len(prefix) /\ SubSeq(s, 1, Len(prefix)) = prefix

\* pd.cut with right=False: the bins are closed on the left.
cut_LeftClosed(x, bins, labels) ==
    IF \E b \in DOMAIN labels : bins[b] <= x /\ x < bins[b + 1]
    THEN labels[CHOOSE b \in DOMAIN labels : bins[b] <= x /\ x < bins[b + 1]]
    ELSE NoCategory

\* pd.cut(x, bins, labels=labels): x is in bin b when bins[b] < x <= bins[b + 1]
cut(x, bins, labels) ==
    IF \E b \in DOMAIN labels : bins[b] < x /\ x <= bins[b + 1]
    THEN labels[CHOOSE b \in DOMAIN labels : bins[b] < x /\ x <= bins[b + 1]]
    ELSE NoCategory

\* The columns apply_fraud_logic writes, for one row.
fraud_columns(row) ==
    LET high_txn_vol == row.transaction_volume > VolumeLimit
        geo_mismatch == row.region # row.transaction_region
        mcc_mismatch == startswith(str(row.mcc_code), "9")
        inactive_spike == row.days_since_last_txn > InactiveDays
        fraud_risk_score == AsInt(high_txn_vol) + AsInt(geo_mismatch)
                            + AsInt(mcc_mismatch) + AsInt(inactive_spike)
    IN [ high_txn_vol |-> high_txn_vol,
         geo_mismatch |-> geo_mismatch,
         mcc_mismatch |-> mcc_mismatch,
         inactive_spike |-> inactive_spike,
         fraud_risk_score |-> fraud_risk_score,
         risk_level |-> cut(fraud_risk_score, risk_bins, risk_labels) ]

\* Whether the frame has every column of `needed`.
HasNeeded(df) == \A c \in Range(needed) : c \notin df.missing

\* apply_fraud_logic(df): the frame df after the call, the columns written in
\* place.  The api/screening.py copy returns None before writing anything when
\* a needed column is missing.
apply_fraud_logic(df) ==
    IF HasNeeded(df)
    THEN [df EXCEPT !.written = [i \in DOMAIN df.cells |-> fraud_columns(df.cells[i])]]
    ELSE df

\* The api/__pycache__/app_final_full.py copy does not look for the columns: the
\* first column expression that reads a missing one raises KeyError, after the
\* columns before it were written.
apply_fraud_logic_full(df) ==
    IF HasNeeded(df) THEN apply_fraud_logic(df)
    ELSE IF "transaction_volume" \in df.missing THEN df
    ELSE [df EXCEPT !.written =
             [i \in DOMAIN df.cells |->
                 [ high_txn_vol |-> df.cells[i].transaction_volume > VolumeLimit ]]]

\* st.session_state.summary after apply_fraud_logic of app_final_full.py
summary(df) ==
    LET level(l) == Cardinality({ i \in DOMAIN df.written : df.written[i].risk_level = l })
    IN [ fraud_total |-> Len(df.cells),
         high_risk |-> level("High"),
         medium_risk |-> level("Medium"),
         low_risk |-> level("Low") ]

\* The rows of the screened frame: every combination of the four flags, at and
\* just past their limits.
WizKinds ==
    { [ transaction_volume |-> v, region |-> "EMEA", transaction_region |-> t,
        mcc_code |-> m, days_since_last_txn |-> dd ] :
        v \in { 10000, 10001 }, t \in { "EMEA", "North America" },
        m \in { 5411, 9399 }, dd \in { 30, 31 } }

\* The needed columns an uploaded file may lack.
MissingChoices == { {}, { "transaction_region" } }

WizInit ==
    /\ \E miss \in MissingChoices :
          wdf = [cells |-> << >>, missing |-> miss, written |-> << >>]
    /\ wpc = "input"
    /\ wOut = << >>

\* One more row of st.session_state.df_screened.
AddWizRow ==
    /\ wpc = "input"
    /\ Len(wdf.cells) < MaxWiz
    /\ \E k \in WizKinds : wdf' = [wdf EXCEPT !.cells = Append(@, k)]
    /\ UNCHANGED << wpc, wOut, scoreVars, txVars, cbVars, scrVars, sessVars >>

\* api/screening.py stage 3: result = apply_fraud_logic(st.session_state.df_screened)
ApplyFraudLogic ==
    /\ wpc = "input"
    /\ wdf.cells # << >>
    /\ wdf' = apply_fraud_logic(wdf)
    /\ IF HasNeeded(wdf)
       THEN wpc' = "analyzed" /\ wOut' = << wdf' >>
       ELSE wpc' = "warned" /\ wOut' = << >>
    /\ UNCHANGED << scoreVars, txVars, cbVars, scrVars, sessVars >>

\* app_final_full.py stage 3: fraud_df = apply_fraud_logic(st.session_state.df_screened)
ApplyFraudLogicFull ==
    /\ wpc = "input"
    /\ wdf.cells # << >>
    /\ wdf' = apply_fraud_logic_full(wdf)
    /\ IF HasNeeded(wdf)
       THEN wpc' = "analyzed" /\ wOut' = << wdf', summary(wdf') >>
       ELSE wpc' = "raised" /\ wOut' = << >>
    /\ UNCHANGED << scoreVars, txVars, cbVars, scrVars, sessVars >>

InitWiz == ScoreIdle /\ TxIdle /\ CbIdle /\ ScrIdle /\ WizInit /\ SessIdle

NextWiz ==
    \/ AddWizRow
    \/ ApplyFraudLogic
    \/ ApplyFraudLogicFull

SpecWiz == InitWiz /\ [][NextWiz]_vars

(***************************************************************************)
(* The staged wizards (merchsentai_app_final.py, merchsentai_appp.py and   *)
(* merchsentai_app_final_visual.py, merchsentai_app_refined.py,            *)
(* merchsentai_app_with_stage4.py, merchsentai_app_stepwise.py) and the    *)
(* session-cached pipeline of Old docs/app.py.  Streamlit runs the script  *)
(* from the top on every interaction; st.session_state (ss) is what one    *)
(* run leaves to the next.  One action is one run of the script: the run   *)
(* an upload triggers, or the run a click on a button triggers.            *)
(***************************************************************************)
Wizards == { "final", "appp", "refined", "with_stage4", "stepwise" }

\* The wizards that keep the uploaded data apart in raw_df.
KeepRaw == Wizards \ { "stepwise" }

\* s with the entries of new written into it.
assign(s, new) == new @@ s

\* The load with one frame stored under both keys.
load_shares_frame_NoCopy == TRUE

\* df.copy() at the load: raw_df and df are two objects.
load_shares_frame == FALSE

\* "Load data": what the script stores for a newly read file.
load(a, s, file) ==
    IF a = "stepwise"
    THEN assign(s, [ df |-> file.rows, filename |-> file.name,
                     enriched |-> FALSE, screened |-> FALSE, fraud_done |-> FALSE ])
    ELSE assign(s, [ raw_df |-> file.rows, df |-> file.rows,
                     shared |-> load_shares_frame, filename |-> file.name,
                     enriched |-> FALSE, screened |-> FALSE, fraud_done |-> FALSE,
                     processor_done |-> FALSE ])

\* ('raw_df' not in st.session_state) or (st.session_state.filename != upload.name)
reload_needed(a, s, name) ==
    \/ (IF a = "stepwise" THEN "df" ELSE "raw_df") \notin DOMAIN s
    \/ s.filename # name

\* df[...] = ... on the frame st.session_state.df refers to: a write into the
\* object, seen under every key that refers to it.
write_in_place(s, df) ==
    IF "shared" \in DOMAIN s /\ s.shared
    THEN assign(s, [ df |-> df, raw_df |-> df ])
    ELSE assign(s, [ df |-> df ])

\* The stage guards before "and st.button(...)".
may_enrich_Again(s) == TRUE

may_enrich(s) == ~s.enriched

may_screen(s) == s.enriched /\ ~s.screened

may_analyse(s) == s.screened /\ ~s.fraud_done

may_simulate(s) == s.fraud_done /\ ~s.processor_done

\* Stage 1: df['Enriched_Location'] = df.get('Country', np.nan);
\* df['Enriched_RiskScore'] = np.random.randint(...); draws is the outcome.
enrich_data(df, draws) ==
    [i \in DOMAIN df |->
        [ Enriched_Location |-> df[i].Country, Enriched_RiskScore |-> draws[i] ] @@ df[i]]

\* Stage 2: df['SanctionedFlag'] = df['MerchantName'].isin(peps), as int where
\* the wizard casts it; the refined wizard sets row 0 when the column sums to 0.
sanctions_screening(a, df) ==
    LET hit == [i \in DOMAIN df |-> df[i].MerchantName \in pep_list]
        forced(i) == a = "refined" /\ i = 1 /\ \A j \in DOMAIN df : ~hit[j]
    IN [i \in DOMAIN df |->
          [ SanctionedFlag |->
              IF a \in { "with_stage4", "stepwise" } THEN hit[i]
              ELSE AsInt(hit[i] \/ forced(i)) ] @@ df[i]]

\* The columns of a frame a scorer returns: those it wrote (the flags, the
\* score) over those it was given.
columns(row) ==
    [c \in DOMAIN row \ { "rec", "flags" } |-> row[c]] @@ row.flags @@ row.rec

frame(scored) == [i \in DOMAIN scored |-> columns(scored[i])]

\* Stage 3 of the wizards that score with add_flags.
fraud_analysis(a, df, thr) ==
    CASE a = "final" -> frame(add_flags_final(df))
      [] a = "appp" -> frame(add_flags(df, thr))
      [] a = "refined" -> frame(add_flags_refined(df, thr))

\* simulate_cost(df, fraud_cost, sanction_cost): SanctionedFlag is a 0/1 column,
\* IsSuspicious a boolean one.
simulate_cost(df, fraud_cost, sanction_cost) ==
    LET sanction_misses == Cardinality({ i \in DOMAIN df : df[i].SanctionedFlag = 1 })
        fraud_misses == Cardinality({ i \in DOMAIN df : df[i].IsSuspicious })
    IN [ sanction_misses |-> sanction_misses,
         sanction_total |-> sanction_misses * sanction_cost,
         fraud_misses |-> fraud_misses,
         fraud_total |-> fraud_misses * fraud_cost,
         total |-> sanction_misses * sanction_cost + fraud_misses * fraud_cost ]

\* df[flags] raises KeyError when a column of flags is not in df.
has_columns(df, flags) ==
    \A i \in DOMAIN df : Range(flags) \subseteq DOMAIN df[i]

\* simulate_processor_cost(df, flags, fraud_cost, sanction_cost), for a frame
\* that has the columns of flags
simulate_processor_cost(df, flags, fraud_cost, sanction_cost) ==
    LET sanction_misses ==
            Cardinality({ i \in DOMAIN df :
                "SanctionedFlag" \in DOMAIN df[i] /\ df[i].SanctionedFlag })
        fraud_misses ==
            Cardinality({ i \in DOMAIN df : \E c \in Range(flags) : df[i][c] })
    IN [ sanction_misses |-> sanction_misses,
         sanction_total |-> sanction_misses * sanction_cost,
         fraud_misses |-> fraud_misses,
         fraud_total |-> fraud_misses * fraud_cost,
         total |-> sanction_misses * sanction_cost + fraud_misses * fraud_cost ]

\* What the run shows once the stages are through: the impact table of
\* merchsentai_app_with_stage4.py reads st.session_state.raw_metrics.
page(a, s) ==
    IF a = "with_stage4" /\ s.processor_done /\ "raw_metrics" \notin DOMAIN s
    THEN "AttributeError"
    ELSE "ok"

\* The merchant rows of the uploaded files: an odd-named merchant off the
\* watchlist that trips four rules before enrichment, and a listed one.
SessionRecords ==
    { [ MerchantName |-> "Bob", Country |-> "Iran", BusinessCategory |-> "Cryptocurrency",
        AvgTransaction |-> 10000, RegistrationDate |-> "400 days ago" ],
      [ MerchantName |-> "John Smith", Country |-> "Canada", BusinessCategory |-> "Retail",
        AvgTransaction |-> 10000, RegistrationDate |-> "400 days ago" ] }

FileNames == { "a.csv", "b.csv" }

\* The non-empty sequences over S of at most n elements.
SeqsUpTo(S, n) == UNION { [1..k -> S] : k \in 1..n }

MerchantFiles == [ name : FileNames, rows : SeqsUpTo(SessionRecords, MaxSession) ]

\* Two stops of st.slider("Suspicious Threshold (%)", 0, 100, 50, step=5)
SessionThresholds == { 40, 50 }

\* st.number_input("Cost per fraud incident ($)", min_value=0, value=200, step=50)
FraudCosts == { 0, 200 }

\* st.number_input("Cost per sanction hit ($)", min_value=0, value=5000, step=500)
SanctionCosts == { 5000 }

\* How often each stage has computed since the last load.
NoRuns == [ enrich |-> 0, screen |-> 0, fraud |-> 0, simulate |-> 0 ]

Ran(stage) == [runs EXCEPT ![stage] = IF @ < MaxRuns THEN @ + 1 ELSE @]

SessInit ==
    /\ ss = << >>
    /\ shown = "upload"
    /\ runs = NoRuns

\* The stage buttons are on the page: a file has been loaded and the run does
\* not end at the load.
Staged == app \in Wizards /\ shown # "unreadable" /\ "df" \in DOMAIN ss

\* The run after the user put file into the uploader; the file can be read or
\* not (pd.read_csv raises).
UploadStep(file, readable) ==
    /\ app \in Wizards
    /\ IF reload_needed(app, ss, file.name)
       THEN IF readable
            THEN /\ shown' = "ok"
                 /\ runs' = NoRuns
                 /\ ss' = load(app, ss, file)
            ELSE /\ shown' = "unreadable"
                 /\ UNCHANGED << ss, runs >>
       ELSE /\ shown' = page(app, ss)
            /\ UNCHANGED << ss, runs >>
    /\ UNCHANGED << app, scoreVars, txVars, cbVars, scrVars, wizVars >>

\* A file that pd.read_csv cannot read gives no rows.
Upload ==
    \/ \E file \in MerchantFiles : UploadStep(file, TRUE)
    \/ \E name \in FileNames : UploadStep([ name |-> name, rows |-> << >> ], FALSE)

\* Stage 1, "Enrich Data"
ClickEnrich ==
    /\ Staged
    /\ may_enrich(ss)
    /\ \E draws \in [DOMAIN ss.df -> RiskDraws] :
          ss' = assign(write_in_place(ss, enrich_data(ss.df, draws)), [ enriched |-> TRUE ])
    /\ runs' = Ran("enrich")
    /\ shown' = "ok"
    /\ UNCHANGED << app, scoreVars, txVars, cbVars, scrVars, wizVars >>

\* Stage 2, "Perform Data Sanctions Screening"
ClickScreen ==
    /\ Staged
    /\ may_screen(ss)
    /\ ss' = assign(write_in_place(ss, sanctions_screening(app, ss.df)), [ screened |-> TRUE ])
    /\ runs' = Ran("screen")
    /\ shown' = "ok"
    /\ UNCHANGED << app, scoreVars, txVars, cbVars, scrVars, wizVars >>

\* Stage 3, "Run Fraud Analysis": add_flags returns a new frame, which is then
\* stored; run_fraud_analysis writes into the frame it is given.
ClickFraud ==
    /\ Staged
    /\ may_analyse(ss)
    /\ IF app \in { "with_stage4", "stepwise" }
       THEN LET result == run_fraud_analysis_with_stage4(ss.df)
            IN ss' = assign(write_in_place(ss, frame(result.df)),
                            [ summary |-> result.summary, flags |-> result.flags,
                              fraud_done |-> TRUE ])
       ELSE \E thr \in SessionThresholds :
               ss' = assign(ss, [ df |-> fraud_analysis(app, ss.df, thr),
                                  shared |-> FALSE, fraud_done |-> TRUE ])
    /\ runs' = Ran("fraud")
    /\ shown' = "ok"
    /\ UNCHANGED << app, scoreVars, txVars, cbVars, scrVars, wizVars >>

\* Stage 4, "Simulate Processor Impact": the raw data is scored without the
\* enrichment, at the threshold the slider shows now, and both frames are
\* costed; the refined wizard shows fixed numbers.
ClickSimulate ==
    /\ Staged
    /\ app \in { "final", "appp", "refined" }
    /\ may_simulate(ss)
    /\ IF app = "refined"
       THEN ss' = assign(ss, [ raw_breakdown |-> [ FraudLoss |-> 1600, SanctionsFine |-> 400,
                                                    DecisionLoss |-> 1000 ],
                               total_loss |-> 1600 + 400 + 1000,
                               saved_breakdown |-> [ FraudLoss |-> 1600,
                                                     SanctionsFine |-> 400,
                                                     DecisionLoss |-> 1000 ],
                               processor_done |-> TRUE ])
       ELSE \E thr \in SessionThresholds, fraud_cost \in FraudCosts,
               sanction_cost \in SanctionCosts :
               ss' = assign(ss,
                       [ raw_metrics |-> simulate_cost(fraud_analysis(app, ss.raw_df, thr),
                                                       fraud_cost, sanction_cost),
                         ref_metrics |-> simulate_cost(ss.df, fraud_cost, sanction_cost),
                         processor_done |-> TRUE ])
    /\ runs' = Ran("simulate")
    /\ shown' = "ok"
    /\ UNCHANGED << app, scoreVars, txVars, cbVars, scrVars, wizVars >>

\* merchsentai_app_with_stage4.py, "Simulate Processor on Raw Data"
ClickSimulateRaw ==
    /\ Staged
    /\ app = "with_stage4"
    /\ may_simulate(ss)
    /\ IF has_columns(ss.raw_df, ss.flags)
       THEN /\ \E fraud_cost \in FraudCosts, sanction_cost \in SanctionCosts :
                  ss' = assign(ss, [ raw_metrics |->
                            simulate_processor_cost(ss.raw_df, ss.flags,
                                                    fraud_cost, sanction_cost) ])
            /\ shown' = "ok"
            /\ runs' = Ran("simulate")
       ELSE /\ shown' = "KeyError"
            /\ UNCHANGED << ss, runs >>
    /\ UNCHANGED << app, scoreVars, txVars, cbVars, scrVars, wizVars >>

\* merchsentai_app_with_stage4.py, "Simulate Processor on Refined Data"
ClickSimulateRefined ==
    /\ Staged
    /\ app = "with_stage4"
    /\ may_simulate(ss)
    /\ \E fraud_cost \in FraudCosts, sanction_cost \in SanctionCosts :
          ss' = assign(ss, [ ref_metrics |->
                                 simulate_processor_cost(ss.df, ss.flags,
                                                         fraud_cost, sanction_cost),
                             processor_done |-> TRUE ])
    /\ shown' = page(app, ss')
    /\ runs' = Ran("simulate")
    /\ UNCHANGED << app, scoreVars, txVars, cbVars, scrVars, wizVars >>

(***************************************************************************)
(* Old docs/app.py: the four-step pipeline that caches each step's frame   *)
(* in st.session_state.                                                    *)
(***************************************************************************)
\* Two of the ten merchants of MERCHANT_POOL: one on the sanction list of
\* api/screening.py, one that screens "Clear".
MERCHANT_POOL ==
    { [ name |-> "Walmart", category |-> "Department Store",
        website |-> "https://www.walmart.com" ],
      [ name |-> "Loblaws", category |-> "Grocery Store",
        website |-> "https://www.loblaws.ca" ] }

\* "is_high_value": row.get("amount", 0) > 250
HighValueLimit == 250

\* fake.street_address() + ...: an address made up for the row, no two alike.
street_address(i) == str(i) \o " Main St, Toronto, ON, Canada"

\* enrich_merchants(df): one row per row of df, with the row's timestamp and
\* amount and a merchant drawn from the pool; picks is the outcome of
\* random.choice(MERCHANT_POOL) per row.
enrich_merchants(df, picks) ==
    [i \in DOMAIN df |->
        [ transaction_date |-> df[i].timestamp,
          merchant_name |-> picks[i].name,
          merchant_category |-> picks[i].category,
          merchant_location |-> street_address(i),
          merchant_country |-> "CA",
          amount |-> df[i].amount,
          merchant_website |-> picks[i].website,
          is_high_value |-> df[i].amount > HighValueLimit ]]

\* The rows of a screened frame, each with its screening_flag.
screened_rows(df) ==
    [i \in DOMAIN df.cells |-> [ screening_flag |-> df.screening_flag[i] ] @@ df.cells[i]]

\* clean_df[clean_df['screening_flag'] == "Clear"]
clear_rows(df) ==
    LET IsClear(row) == row.screening_flag = "Clear"
    IN SelectSeq(screened_rows(df), IsClear)

\* analyze_fraud(clean_df) over the enriched columns: the timestamp column is
\* transaction_date, the merchant column merchant_name.
analyze_clean(clean) ==
    LET key(row) == [ merchant |-> row.merchant_name,
                      timestamp |-> row.transaction_date,
                      merchant_location |-> row.merchant_location ]
        keys == { key(clean[i]) : i \in DOMAIN clean }
        log == [k \in keys |-> Cardinality({ i \in DOMAIN clean : key(clean[i]) = k })]
        result == analyze_fraud(log, TRUE).df
        Kept(row) == result[key(row)].rows > 0
        kept == SelectSeq(clean, Kept)
    IN [i \in DOMAIN kept |-> [ fraud_flag |-> result[key(kept[i])].fraud_flag ] @@ kept[i]]

\* The rows of the uploaded transaction files.
TxRows ==
    { [ timestamp |-> "00:59", amount |-> 100 ],
      [ timestamp |-> "01:00", amount |-> 300 ] }

TxFiles == [ name : FileNames, rows : SeqsUpTo(TxRows, MaxSession) ]

\* Step 1: every run with a file in the uploader reads it into raw_df.
UploadCsv ==
    /\ app = "old_docs"
    /\ \E file \in TxFiles : ss' = assign(ss, [ raw_df |-> file.rows ])
    /\ shown' = "ok"
    /\ UNCHANGED << app, runs, scoreVars, txVars, cbVars, scrVars, wizVars >>

\* Step 2, "Run Enrichment", with no enriched_df cached
RunEnrichment ==
    /\ app = "old_docs"
    /\ "raw_df" \in DOMAIN ss
    /\ "enriched_df" \notin DOMAIN ss
    /\ \E picks \in [DOMAIN ss.raw_df -> MERCHANT_POOL] :
          ss' = assign(ss, [ enriched_df |->
                               [ cells |-> enrich_merchants(ss.raw_df, picks),
                                 screening_flag |-> << >> ] ])
    /\ UNCHANGED << app, shown, runs, scoreVars, txVars, cbVars, scrVars, wizVars >>

\* Step 3, "Run Screening", with no screened_df cached: screen_merchants writes
\* the flags into the enriched frame and returns that frame.
RunScreening ==
    /\ app = "old_docs"
    /\ "enriched_df" \in DOMAIN ss
    /\ "screened_df" \notin DOMAIN ss
    /\ \E proc \in { "none", "default_process" } :
          LET screened == screen_merchants(ss.enriched_df, proc)
          IN ss' = assign(ss, [ enriched_df |-> screened, screened_df |-> screened ])
    /\ UNCHANGED << app, shown, runs, scoreVars, txVars, cbVars, scrVars, wizVars >>

\* Step 4, "Run Fraud Analysis", with no analyzed_df cached
RunFraudAnalysis ==
    /\ app = "old_docs"
    /\ "screened_df" \in DOMAIN ss
    /\ "analyzed_df" \notin DOMAIN ss
    /\ ss' = assign(ss, [ analyzed_df |-> analyze_clean(clear_rows(ss.screened_df)) ])
    /\ UNCHANGED << app, shown, runs, scoreVars, txVars, cbVars, scrVars, wizVars >>

\* The wizards that simulate the processor in one step, and the stepwise one.
InitSession ==
    /\ ScoreIdle /\ TxIdle /\ CbIdle /\ ScrIdle /\ WizIdle
    /\ app \in Wizards \ { "with_stage4" }
    /\ SessInit

NextSession ==
    \/ Upload
    \/ ClickEnrich
    \/ ClickScreen
    \/ ClickFraud
    \/ ClickSimulate

SpecSession == InitSession /\ [][NextSession]_vars

\* merchsentai_app_with_stage4.py
InitStage4 ==
    /\ ScoreIdle /\ TxIdle /\ CbIdle /\ ScrIdle /\ WizIdle
    /\ app = "with_stage4"
    /\ SessInit

NextStage4 ==
    \/ Upload
    \/ ClickEnrich
    \/ ClickScreen
    \/ ClickFraud
    \/ ClickSimulateRaw
    \/ ClickSimulateRefined

SpecStage4 == InitStage4 /\ [][NextStage4]_vars

\* Old docs/app.py
InitOldDocs ==
    /\ ScoreIdle /\ TxIdle /\ CbIdle /\ ScrIdle /\ WizIdle
    /\ app = "old_docs"
    /\ SessInit

NextOldDocs ==
    \/ UploadCsv
    \/ RunEnrichment
    \/ RunScreening
    \/ RunFraudAnalysis

SpecOldDocs == InitOldDocs /\ [][NextOldDocs]_vars

(***************************************************************************)
(* Claims about the rule scorers, checked under Spec.                      *)
(***************************************************************************)
AddFlagsCopies == { "final", "visual", "refined" }

\* The rule flags of a returned row that are 1.
TrippedFlags(row) == { c \in Range(flag_cols) \cap DOMAIN row.flags : row.flags[c] = 1 }

\* The classification a returned row carries (IsSuspicious, or Suspicious in app.py).
Classified(row) ==
    IF "IsSuspicious" \in DOMAIN row THEN row.IsSuspicious ELSE row.Suspicious

\* C1: in every row add_flags returns, FlagsTripped is the number of the 10 rule
\* flags that are 1 and FraudScore is FlagsTripped / 10 * 100 to one decimal
\* (here: 100 * FlagsTripped tenths of a percent), which lies within [0, 100].
C1_FraudScoreIsShareOfRules ==
    (pc = "scored" /\ copy \in AddFlagsCopies) =>
        \A i \in DOMAIN out :
            /\ Cardinality(DOMAIN out[i].flags) = 10
            /\ out[i].FlagsTripped = Cardinality(TrippedFlags(out[i]))
            /\ out[i].FraudScore * 10 = out[i].FlagsTripped * 1000
            /\ out[i].FraudScore >= 0
            /\ out[i].FraudScore <= 1000

\* C1 witness: add_flags has scored a row that trips 8 rules and one that trips none.
C1_Witness ==
    /\ pc = "scored"
    /\ copy = "final"
    /\ \E i \in DOMAIN out : out[i].FlagsTripped = 8 /\ out[i].FraudScore = 800
    /\ \E i \in DOMAIN out : out[i].FlagsTripped = 0 /\ out[i].FraudScore = 0

\* C2: in every copy of the scoring logic a merchant is classified Suspicious
\* exactly when its fraud score (triggered rules / 10 * 100) is at least the
\* configured suspicious threshold (50 where the copy takes none).
C2_SuspiciousIffScoreAtLeastThreshold ==
    pc = "scored" =>
        \A i \in DOMAIN out :
            Classified(out[i]) <=> (Cardinality(TrippedFlags(out[i])) * 10 >= threshold)

\* C3: a second run of the enrichment-plus-scoring page over the same batch and
\* configuration returns the assessments the first run returned.
C3_RerunYieldsIdenticalAssessments ==
    (pc = "scored" /\ prev # NoRun) => out = prev

\* The scorer that copy c is, applied to df.
ScoreBy(c, df, thr) ==
    CASE c = "final" -> add_flags_final(df)
      [] c = "visual" -> add_flags(df, thr)
      [] c = "refined" -> add_flags_refined(df, thr)

\* C4: the rule flags of a record depend on that record and the configuration
\* alone: scoring a batch that differs only in another record gives record i
\* the same flags, SanctionedFlag included.
C4_FlagsDependOnOwnRecordOnly ==
    (pc = "scored" /\ copy \in AddFlagsCopies) =>
        \A i \in DOMAIN batch : \A j \in DOMAIN batch \ {i} : \A r2 \in Records :
            ScoreBy(copy, [batch EXCEPT ![j] = r2], threshold)[i].flags = out[i].flags

(***************************************************************************)
(* Claims about analyze_fraud, checked under SpecTx.                       *)
(***************************************************************************)
\* The rows of merchant m in the uploaded log whose timestamp is a time t with
\* lo <= t < hi (minutes since midnight).
RowsWithin(m, lo, hi) ==
    SumOver(txs, { k \in TxKinds : /\ k.merchant = m
                                    /\ IsTime(k.timestamp)
                                    /\ to_datetime(k.timestamp) >= lo
                                    /\ to_datetime(k.timestamp) < hi })

\* The first minutes of the clock hours of the log's day that hold a timestamp.
HourStarts == { 0, 60 }

\* C5: a merchant is burst-flagged exactly when some one-hour window holds
\* strictly more than 10 of its transactions; 11 in one window flag it, exactly
\* 10 do not.
C5_BurstIffMoreThanTenInAWindow ==
    txpc = "analyzed" =>
        \A m \in TxMerchants :
            /\ m \in txOut.burst_merchants
                 <=> \E w \in HourStarts : RowsWithin(m, w, w + 60) > 10
            /\ (\E w \in HourStarts : RowsWithin(m, w, w + 60) = 11)
                 => m \in txOut.burst_merchants
            /\ (\A w \in HourStarts : RowsWithin(m, w, w + 60) <= 10)
                 => m \notin txOut.burst_merchants

\* C5 witness: M1 has 11 transactions in the hour from 00:00 and is burst-flagged,
\* M2 has one and is not.
C5_Witness ==
    /\ txpc = "analyzed"
    /\ RowsWithin("M1", 0, 60) = 11
    /\ RowsWithin("M2", 0, 60) = 1
    /\ txOut.burst_merchants = { "M1" }

\* A merchant's transactions straddle 01:00 within sixty minutes: some fall at
\* 00:59, some at 01:00.
Straddles(m) == RowsWithin(m, 59, 60) > 0 /\ RowsWithin(m, 60, 61) > 0

\* C6: burst windows are the clock hours [t, t + 1h): transactions at 00:59 and
\* at 01:00 are never counted together, so a merchant with more than 10
\* transactions within sixty minutes across 01:00 is flagged only if one of the
\* two clock hours alone holds more than 10, and a transaction at 01:00 sharp
\* counts for the hour that starts there.
C6_WindowsAreClockHours ==
    txpc = "analyzed" =>
        \A m \in TxMerchants :
            (Straddles(m) /\ RowsWithin(m, 59, 119) > 10) =>
                /\ m \in txOut.burst_merchants
                     <=> (RowsWithin(m, 0, 60) > 10 \/ RowsWithin(m, 60, 120) > 10)
                /\ (RowsWithin(m, 0, 60) = 10 /\ RowsWithin(m, 60, 61) >= 1
                     /\ RowsWithin(m, 60, 120) <= 10)
                     => m \notin txOut.burst_merchants

\* C6 witness: 11 transactions of M1 within one minute, 6 at 00:59 and 5 at
\* 01:00, analysed and not burst-flagged.
C6_Witness ==
    /\ txpc = "analyzed"
    /\ RowsWithin("M1", 59, 60) = 6
    /\ RowsWithin("M1", 60, 61) = 5
    /\ "M1" \notin txOut.burst_merchants

\* The distinct locations over all rows of merchant m in the uploaded log.
LocationsOf(m) ==
    { k.merchant_location : k \in { x \in TxKinds : x.merchant = m /\ txs[x] > 0 } }

\* C7: a merchant is location-flagged exactly when the log has a location
\* column and the distinct locations over all its transactions number more
\* than 2.
C7_LocationIffMoreThanTwoDistinct ==
    txpc = "analyzed" =>
        \A m \in TxMerchants :
            m \in txOut.flagged_locations
                <=> (hasLoc /\ Cardinality(LocationsOf(m)) > 2)

\* The skipped-record counter returned with the result: analyze_fraud returns
\* the frame alone, so none is reported.
SkippedReported(result) ==
    IF "skipped" \in DOMAIN result THEN result.skipped ELSE 0

\* The rows of the frame analyze_fraud returned.
RowsReturned(result) ==
    SumOver([k \in DOMAIN result.df |-> result.df[k].rows], DOMAIN result.df)

\* C8: transactions with an unparseable timestamp are left out of the burst
\* counts and are accounted for: the rows returned plus the skipped-record
\* counter returned with them equal the rows of the input.
C8_SkippedRowsAreCounted ==
    txpc = "analyzed" =>
        RowsReturned(txOut) + SkippedReported(txOut) = Rows(txs)

(***************************************************************************)
(* Claims about detect_chargeback_fraud, checked under SpecCb.             *)
(***************************************************************************)
\* The rate of a row as the claim defines it: chargebacks / transactions, and 0
\* for a row without transactions.
DefinedRate(m) ==
    IF m.NumTransactions = 0 THEN Zero
    ELSE Frac(m.NumChargebacks, m.NumTransactions)

\* C9: a merchant with NumTransactions = 0 has chargeback rate 0, a defined
\* number: its HighChargebackRateFlag is false, and the population mean is the
\* mean of the rates with that merchant counted as 0.
C9_ZeroTransactionsGiveRateZero ==
    cbpc = "detected" =>
        /\ \A m \in Present(cbs) :
               m.NumTransactions = 0 =>
                   /\ cbOut.columns[m].ChargebackRate = Zero
                   /\ ~cbOut.columns[m].HighChargebackRateFlag
        /\ (\E m \in Present(cbs) : m.NumTransactions = 0) =>
               cbOut.rate_mean =
                   FMul(FSum([k \in Present(cbs) |-> DefinedRate(k)], cbs, Present(cbs)),
                        Frac(1, SumOver(cbs, Present(cbs))))

\* C10: when the population standard deviation of the chargeback rates is 0 (a
\* single merchant, or all rates equal), every merchant's z-score is 0 and the
\* z-score outlier flag fires for no merchant.
C10_ZeroStdGivesZeroZ ==
    (cbpc = "detected" /\ cbOut.rate_var = Zero) =>
        \A m \in Present(cbs) :
            /\ cbOut.columns[m].ChargebackRateZ = Zero
            /\ ~cbOut.columns[m].ChargebackOutlierZFlag

\* The rows of the uploaded summary whose chargeback rate is n / d.
RowsWithRate(n, d) ==
    SumOver(cbs, { k \in CbKinds : ChargebackRate(k) = Frac(n, d) })

\* A batch of 10 merchants: 9 with rate 0.01 and 1 with rate 0.5.
NineLowOneHigh ==
    /\ SumOver(cbs, CbKinds) = 10
    /\ RowsWithRate(1, 100) = 9
    /\ RowsWithRate(1, 2) = 1

\* C11: for a batch of 10 merchants, 9 with chargeback rate 0.01 and 1 with
\* rate 0.5, ChargebackOutlierZFlag (population std, |z| > 2) is set for the
\* merchant with rate 0.5 and for none of the other nine.
C11_OutlierFlagsExactlyTheHighRate ==
    (cbpc = "detected" /\ NineLowOneHigh) =>
        \A m \in Present(cbs) :
            cbOut.columns[m].ChargebackOutlierZFlag <=> (ChargebackRate(m) = Frac(1, 2))

\* C11 witness: the 9 + 1 batch has been scored and one merchant's outlier flag
\* is set while another's is not.
C11_Witness ==
    /\ cbpc = "detected"
    /\ NineLowOneHigh
    /\ \E m \in Present(cbs) : cbOut.columns[m].ChargebackOutlierZFlag
    /\ \E m \in Present(cbs) : ~cbOut.columns[m].ChargebackOutlierZFlag

\* C12: in every copy of detect_chargeback_fraud the returned signal of a
\* merchant is the disjunction of the four rules, and the result carries each
\* of the four rule outcomes of the merchant as a value of its own.
C12_SignalIsOrOfRetrievableRules ==
    cbpc \in { "detected", "detected_7c2111" } =>
        \A m \in Present(cbs) :
            LET rules == ChargebackFlags(m, cbs, cbOut.ulp)
            IN /\ cbOut.returned[m] <=> (\E f \in DOMAIN rules : rules[f])
               /\ \A f \in DOMAIN rules :
                      /\ f \in DOMAIN cbOut.columns[m]
                      /\ cbOut.columns[m][f] = rules[f]

(***************************************************************************)
(* Claims about fuzzy_match and screen_merchants, checked under SpecScreen *)
(* (C13: about the SanctionedFlag rule, under Spec).                       *)
(***************************************************************************)
\* C13: a merchant whose name equals a watchlist entry up to letter case is
\* reported as matched: its SanctionedFlag is 1 in every scored row.
C13_CaseInsensitiveNameIsMatched ==
    (pc = "scored" /\ copy # "cc417f") =>
        \A i \in DOMAIN out :
            (\E p \in pep_list : lower(p) = lower(out[i].rec.MerchantName))
                => out[i].flags["SanctionedFlag"] = 1

\* C14: fuzzy_match returns true exactly when some list entry has a token-sort
\* similarity >= threshold with the name (so false for an empty list); with the
\* list ["Acme Corp"] and threshold 80 it is true for "Acme Corporation" and
\* false for "Zeta Inc".
C14_FuzzyMatchIsBestScoreAtLeastThreshold ==
    \A c \in Range(fm) :
        /\ c.result <=>
               \E i \in DOMAIN c.name_list :
                   ScoreAtLeast(token_sort_ratio(c.name, c.name_list[i], processor),
                                c.threshold)
        /\ (c.name_list = << "Acme Corp" >> /\ c.threshold = 80) =>
               /\ c.name = "Acme Corporation" => c.result
               /\ c.name = "Zeta Inc" => ~c.result

\* The number of places where sub occurs in s.
CountOf(s, sub) ==
    Cardinality({ i \in 1..(Len(s) - Len(sub) + 1) : SubSeq(s, i, i + Len(sub) - 1) = sub })

\* The place of the first occurrence of sub in s.
IndexOf(s, sub) ==
    CHOOSE i \in 1..(Len(s) - Len(sub) + 1) :
        /\ SubSeq(s, i, i + Len(sub) - 1) = sub
        /\ \A j \in 1..(i - 1) : SubSeq(s, j, j + Len(sub) - 1) # sub

\* The number of reasons a screening value lists.
ReasonCount(value) == IF value = "Clear" THEN 0 ELSE 1 + CountOf(value, "; ")

\* The four screening conditions of a row, in the order of the report, each
\* with the text that reports it.
ScreeningConditions(row) ==
    << [ hit |-> \/ row.merchant_name \in Range(SANCTION_LIST)
                 \/ \E i \in DOMAIN SANCTION_LIST :
                        ScoreAtLeast(token_sort_ratio(row.merchant_name, SANCTION_LIST[i],
                                                      processor), FuzzyThreshold),
         text |-> "match: sanction list" ],
       [ hit |-> row.merchant_category \in HIGH_RISK_CATEGORIES,
         text |-> "High risk category: " \o row.merchant_category ],
       [ hit |-> row.merchant_country \in HIGH_RISK_COUNTRIES,
         text |-> "High risk country: " \o row.merchant_country ],
       [ hit |-> \E keyword \in ADVERSE_KEYWORDS :
                    contains(lower(row.merchant_website), keyword),
         text |-> "Adverse media keywords in website" ] >>

\* C15: the screening value of a merchant is "Clear" iff none of its screening
\* conditions holds; otherwise it lists exactly the conditions that hold, once
\* each, in the order sanction match, category, country, adverse keyword.
C15_ClearIffNoReasonElseOrderedReasons ==
    spc = "screened" =>
        \A i \in DOMAIN sdf.cells :
            LET value == sdf.screening_flag[i]
                conds == ScreeningConditions(sdf.cells[i])
                hits == { c \in DOMAIN conds : conds[c].hit }
            IN /\ value = "Clear" <=> hits = {}
               /\ ReasonCount(value) = Cardinality(hits)
               /\ \A c \in DOMAIN conds :
                      CountOf(value, conds[c].text) = IF c \in hits THEN 1 ELSE 0
               /\ \A c, e \in hits :
                      c < e => IndexOf(value, conds[c].text) < IndexOf(value, conds[e].text)

\* C15 witness: the batch of an exact watchlist match, a high-risk-country
\* merchant and a clean merchant has been screened with 1, 1 and 0 reasons.
C15_Witness ==
    /\ spc = "screened"
    /\ [i \in DOMAIN sdf.cells |-> sdf.cells[i].merchant_name]
           = << "Walmart", "Starbucks", "Loblaws" >>
    /\ sdf.screening_flag[1] = "Exact match: sanction list"
    /\ [i \in DOMAIN sdf.cells |-> ReasonCount(sdf.screening_flag[i])] = << 1, 1, 0 >>
    /\ sdf.screening_flag[3] = "Clear"

\* C17: when screen_merchants raises part-way through a batch, the caller's
\* frame carries no screening_flag value of the rows screened before the error.
C17_NoPartialResultOnError ==
    spc = "raised" => sdf.screening_flag = << >>

\* C18: screen_merchants leaves the frame it was handed without a
\* screening_flag column and returns the screened rows in another object.
C18_CallerFrameIsLeftUnchanged ==
    (spc = "screened" /\ sdf.cells # << >>) =>
        /\ sdf.screening_flag = << >>
        /\ sOut[1].screening_flag # << >>

(***************************************************************************)
(* Further claims about the rule scorers, checked under Spec.              *)
(***************************************************************************)
\* The recent-registration outcome of a returned row, whatever the copy calls
\* its column.
RecentRegistrationOf(row) ==
    IF "RecentRegistrationFlag" \in DOMAIN row.flags
    THEN row.flags["RecentRegistrationFlag"] = 1
    ELSE row.flags["RecentRegistration"]

\* The data-quality warning recorded with a returned row: no scorer returns one.
DataQualityWarning(row) ==
    IF "DataQualityWarning" \in DOMAIN row THEN row.DataQualityWarning ELSE FALSE

\* C16: scoring a batch never fails because of a registration date, and a
\* record whose registration date is missing or unparseable is scored with
\* RecentRegistration false and a DataQualityWarning on record.
C16_BadRegistrationDateWarnsAndNeverCrashes ==
    /\ pc # "raised"
    /\ pc = "scored" =>
           \A i \in DOMAIN out :
               ~IsDate(out[i].rec.RegistrationDate) =>
                   /\ ~RecentRegistrationOf(out[i])
                   /\ DataQualityWarning(out[i])

(***************************************************************************)
(* Claims about the classification schemes (C19 under Spec, C20 under      *)
(* SpecWiz).                                                               *)
(***************************************************************************)
\* The score a returned row is classified by.
ScoreOf(row) ==
    IF "FraudScore" \in DOMAIN row THEN row.FraudScore ELSE row.FraudFlagCount

\* The place of a class in its order: NotSuspicious < Suspicious and
\* Low < Medium < High.
Rank(class) ==
    CASE class = FALSE -> 0
      [] class = TRUE -> 1

LevelRank(level) ==
    CASE level = "Low" -> 1
      [] level = "Medium" -> 2
      [] level = "High" -> 3
      [] OTHER -> 0

\* The flag counts apply_fraud_logic can produce.
FlagCounts == 0..4

\* C19: classification is a non-decreasing function of the score: of two rows
\* scored in one run, the one with the lower or equal score never gets the
\* higher class (threshold scheme), and of two flag counts the lower or equal
\* one never gets the higher risk level (bucket scheme).
C19_ClassificationIsMonotonicInScore ==
    /\ (pc = "scored" /\ copy # "cc417f") =>
           \A a, b \in DOMAIN out :
               ScoreOf(out[a]) <= ScoreOf(out[b])
                   => Rank(Classified(out[a])) <= Rank(Classified(out[b]))
    /\ \A a, b \in FlagCounts :
           a <= b => LevelRank(cut(a, risk_bins, risk_labels))
                         <= LevelRank(cut(b, risk_bins, risk_labels))

\* C19 witness: one run has scored a row below the threshold as not suspicious
\* and a row with a higher score as suspicious.
C19_Witness ==
    /\ pc = "scored"
    /\ copy = "visual"
    /\ \E a, b \in DOMAIN out :
          /\ out[a].FraudScore < out[b].FraudScore
          /\ ~out[a].IsSuspicious
          /\ out[b].IsSuspicious

\* C20: risk_level is Low iff the number of triggered flags is <= 1, Medium iff
\* it is 2 and High iff it is >= 3, so every count 0..4 has exactly one level.
C20_BucketsOfTheFlagCount ==
    wpc = "analyzed" =>
        \A i \in DOMAIN wdf.cells :
            LET w == wOut[1].written[i]
                count == Cardinality({ f \in { "high_txn_vol", "geo_mismatch",
                                              "mcc_mismatch", "inactive_spike" } : w[f] })
            IN /\ w.fraud_risk_score = count
               /\ w.risk_level = "Low" <=> count <= 1
               /\ w.risk_level = "Medium" <=> count = 2
               /\ w.risk_level = "High" <=> count >= 3
               /\ w.risk_level \in { "Low", "Medium", "High" }

\* C20 witness: a frame with a row of no flag and a row of all four flags has
\* been analyzed: Low and High.
C20_Witness ==
    /\ wpc = "analyzed"
    /\ \E i, j \in DOMAIN wdf.cells :
          /\ wOut[1].written[i].fraud_risk_score = 0
          /\ wOut[1].written[i].risk_level = "Low"
          /\ wOut[1].written[j].fraud_risk_score = 4
          /\ wOut[1].written[j].risk_level = "High"

(***************************************************************************)
(* Further claims about the rule scorers, checked under Spec.              *)
(***************************************************************************)
\* The rule names whose flag is 1 in a returned row, in rule-definition order.
NamesInOrder(row) ==
    LET F[i \in 0..Len(flag_cols)] ==
            IF i = 0 THEN << >>
            ELSE IF row.flags[flag_cols[i]] = 1
                 THEN Append(F[i - 1], flag_cols[i])
                 ELSE F[i - 1]
    IN F[Len(flag_cols)]

\* C21: every row the refined add_flags returns carries TriggeredRules, the
\* names of exactly the rules whose flag is 1, in rule-definition order and
\* separated by ", "; the number of names listed equals FlagsTripped.
C21_TriggeredRulesListsTheFlagsInOrder ==
    (pc = "scored" /\ copy = "refined") =>
        \A i \in DOMAIN out :
            /\ out[i].TriggeredRules = join(", ", NamesInOrder(out[i]))
            /\ Len(NamesInOrder(out[i])) = out[i].FlagsTripped
            /\ out[i].FlagsTripped = (IF out[i].TriggeredRules = "" THEN 0
                                       ELSE 1 + CountOf(out[i].TriggeredRules, ", "))

\* C21 witness: the refined add_flags has returned a row that lists the first
\* two rules, in their order, among several, and a row that lists none.
C21_Witness ==
    /\ pc = "scored"
    /\ copy = "refined"
    /\ \E i \in DOMAIN out :
          /\ out[i].FlagsTripped >= 3
          /\ SubSeq(out[i].TriggeredRules, 1, 37) = "SanctionedFlag, HighRiskCountryFlag, "
    /\ \E i \in DOMAIN out : out[i].FlagsTripped = 0 /\ out[i].TriggeredRules = ""

\* The risk score an input row carries, if it carries one.
HasRiskScore(r) == "Enriched_RiskScore" \in DOMAIN r

\* C22: the risk score rule fires exactly for the rows whose Enriched_RiskScore
\* is strictly greater than 80; a row with no Enriched_RiskScore value is scored
\* as if its score were 0, flag off, and scoring such a batch does not raise.
C22_RiskScoreRuleIsStrictAndDefaultsToZero ==
    /\ (pc = "scored" /\ copy \in AddFlagsCopies) =>
          \A i \in DOMAIN out :
              (out[i].flags.HighRiskScoreFlag = 1)
                  <=> (HasRiskScore(batch[i]) /\ batch[i].Enriched_RiskScore > 80)
    /\ (pc = "scored" /\ copy = "app") =>
          \A i \in DOMAIN out :
              (out[i].flags.HighRiskScoreFlag = 1) <=> (out[i].rec.Enriched_RiskScore > 80)
    /\ pc = "analysed" =>
          \A i \in DOMAIN out :
              /\ out[i].flags.HighScoreFlag
                  <=> (HasRiskScore(batch[i]) /\ batch[i].Enriched_RiskScore > 80)
              /\ ~HasRiskScore(batch[i]) => out[i].rec.Enriched_RiskScore = 0
    /\ (pc = "raised") => copy = "cc417f"

\* C22 witness: add_flags has scored a row with no risk score, flag off, next to
\* a row with risk score 81, flag on.
C22_Witness ==
    /\ pc = "scored"
    /\ copy = "final"
    /\ \E i \in DOMAIN out :
          ~HasRiskScore(batch[i]) /\ out[i].flags.HighRiskScoreFlag = 0
    /\ \E i \in DOMAIN out :
          /\ HasRiskScore(batch[i])
          /\ batch[i].Enriched_RiskScore = 81
          /\ out[i].flags.HighRiskScoreFlag = 1

\* C27: in the 10-rule scorer the crypto, luxury and energy flags exclude one
\* another, the crypto flag implies the high-risk-category flag, the luxury and
\* the energy flag imply the high-amount flag; so at most 8 flags are tripped,
\* the fraud score is at most 80, and no row is suspicious at a threshold
\* above 80.
C27_AtMostEightFlagsTrip ==
    (pc = "scored" /\ copy \in AddFlagsCopies) =>
        \A i \in DOMAIN out :
            LET f == out[i].flags
            IN /\ f.CryptoRelatedFlag + f.LuxuryHighValueFlag + f.EnergyLargeVolumeFlag <= 1
               /\ f.CryptoRelatedFlag = 1 => f.HighRiskCategoryFlag = 1
               /\ (f.LuxuryHighValueFlag = 1 \/ f.EnergyLargeVolumeFlag = 1)
                      => f.HighAmountFlag = 1
               /\ out[i].FlagsTripped <= 8
               /\ out[i].FraudScore <= 800
               /\ threshold > 80 => ~out[i].IsSuspicious

\* C27 witness: a row that trips 8 rules has been scored at threshold 85 and is
\* not suspicious.
C27_Witness ==
    /\ pc = "scored"
    /\ copy = "visual"
    /\ threshold = 85
    /\ \E i \in DOMAIN out :
          /\ out[i].FlagsTripped = 8
          /\ out[i].FraudScore = 800
          /\ out[i].flags.CryptoRelatedFlag = 1
          /\ ~out[i].IsSuspicious

\* C28: the z-score is taken against the population standard deviation of the
\* batch itself, so |z| of a merchant is at most the root of N - 1 in a batch of
\* N merchants, and in a batch of 5 or fewer merchants the outlier rule |z| > 2
\* fires for no merchant, whatever the chargeback rates.
C28_SmallBatchesNeverFireTheOutlierFlag ==
    cbpc \in { "detected", "detected_7c2111" } =>
        LET N == SumOver(cbs, Present(cbs))
        IN \A m \in Present(cbs) :
               LET z == cbOut.columns[m].ChargebackRateZ
               IN /\ z.k = "z" => ~AbsAbove(z, N - 1)
                  /\ N <= 5 => ~OutlierZ(z)

(***************************************************************************)
(* Claims about the staged wizards and the cached pipeline                 *)
(***************************************************************************)
\* C26: in the wizard with one button for the raw and one for the refined
\* simulation, whenever processor_done is set both raw_metrics and ref_metrics
\* are in the session, in whatever order the two buttons were clicked, and
\* the impact table never reads a metric that is not there.
C26_ProcessorDoneHasBothMetrics ==
    (app = "with_stage4" /\ "processor_done" \in DOMAIN ss /\ ss.processor_done) =>
        /\ { "raw_metrics", "ref_metrics" } \subseteq DOMAIN ss
        /\ shown # "AttributeError"

\* The processor-impact stage of a wizard that costs both frames in one click
\* has run for the loaded file.
Simulated ==
    /\ app \in { "final", "appp" }
    /\ "processor_done" \in DOMAIN ss
    /\ ss.processor_done

\* C24: the savings the processor-impact stage reports, the total loss on the
\* raw data minus the total loss on the refined data, are never negative.
C24_SavingsAreNeverNegative ==
    Simulated => ss.raw_metrics.total - ss.ref_metrics.total >= 0

\* The rows of df whose SanctionedFlag is 1: the merchants reported as
\* sanctioned.
Sanctioned(df) == { i \in DOMAIN df : df[i].SanctionedFlag = 1 }

\* C23: in the refined wizard at least one merchant of the batch has
\* SanctionedFlag = 1 once the screening stage has run, also after add_flags,
\* and the fraud analysis reports the same merchants as sanctioned as the
\* screening stage did.
C23_SanctionedSetIsKeptByFraudAnalysis ==
    /\ [](app = "refined" /\ "screened" \in DOMAIN ss /\ ss.screened
              => Sanctioned(ss.df) # {})
    /\ [][(app = "refined" /\ "fraud_done" \in DOMAIN ss
              /\ ~ss.fraud_done /\ ss'.fraud_done)
              => Sanctioned(ss'.df) = Sanctioned(ss.df)]_vars

\* The stage flag of the loaded file, FALSE where the wizard has no such stage.
flag(name) == Staged /\ get(ss, name, FALSE)

\* C25: whatever buttons were clicked and however often the script reran for
\* the loaded file, processor_done implies fraud_done implies screened implies
\* enriched, and each of enrichment, screening, fraud analysis and impact
\* simulation has computed at most once since the file was loaded.
C25_StagesAreOrderedAndRunOnce ==
    app \in Wizards =>
        /\ flag("processor_done") => flag("fraud_done")
        /\ flag("fraud_done") => flag("screened")
        /\ flag("screened") => flag("enriched")
        /\ \A stage \in DOMAIN runs : runs[stage] <= 1

\* All four stages of the final wizard have run for the loaded file.
C25_Witness ==
    /\ app = "final"
    /\ flag("processor_done")
    /\ \A stage \in DOMAIN runs : runs[stage] = 1

\* The four stage flags of s are all off.
flags_reset(s) == ~s.enriched /\ ~s.screened /\ ~s.fraud_done /\ ~s.processor_done

\* What C30 says of one step of a wizard that keeps raw_df.
UploadResetsAndRawDataIsKept ==
    app \in KeepRaw =>
        /\ \A file \in MerchantFiles :
              UploadStep(file, TRUE) =>
                  IF reload_needed(app, ss, file.name)
                  THEN /\ flags_reset(ss')
                       /\ ss'.raw_df = file.rows
                       /\ ss'.df = file.rows
                  ELSE ss' = ss
        /\ ("raw_df" \in DOMAIN ss /\ ss'.filename = ss.filename)
              => ss'.raw_df = ss.raw_df

\* C30: in a wizard that keeps raw_df, the run for an uploaded file whose name
\* differs from the stored filename turns enriched, screened, fraud_done and
\* processor_done off and stores the file's data as raw_df and as df; the run
\* for a file of the stored name changes nothing in the session; and no step
\* that leaves the filename alone changes raw_df.
C30_UploadResetsAndRawDataIsKept == [][UploadResetsAndRawDataIsKept]_vars

\* A file of another name was loaded after all four stages had run: the
\* metrics of the earlier file are still in the session, the flags are off.
C30_Witness ==
    /\ app \in { "final", "appp" }
    /\ "raw_metrics" \in DOMAIN ss
    /\ flags_reset(ss)
    /\ ss.raw_df = ss.df
    /\ shown = "ok"

\* row carries the timestamp and the amount of a row of raw.
stems_from(row, raw) ==
    \E i \in DOMAIN raw :
        row.transaction_date = raw[i].timestamp /\ row.amount = raw[i].amount

\* A cached frame has one row per row of raw, in the order of raw.
enriched_from(cells, raw) ==
    /\ Len(cells) = Len(raw)
    /\ \A i \in DOMAIN cells :
          cells[i].transaction_date = raw[i].timestamp /\ cells[i].amount = raw[i].amount

\* C29: in the cached four-step pipeline the fraud analysis is applied only to
\* records screened "Clear", and enriched_df, screened_df and analyzed_df are
\* at every moment derived from the raw_df that is in the session: after a new
\* upload none of them stems from the file uploaded before.
C29_CachedResultsStemFromTheCurrentUpload ==
    app = "old_docs" =>
        /\ "analyzed_df" \in DOMAIN ss =>
              \A i \in DOMAIN ss.analyzed_df :
                  /\ ss.analyzed_df[i].screening_flag = "Clear"
                  /\ stems_from(ss.analyzed_df[i], ss.raw_df)
        /\ "enriched_df" \in DOMAIN ss => enriched_from(ss.enriched_df.cells, ss.raw_df)
        /\ "screened_df" \in DOMAIN ss => enriched_from(ss.screened_df.cells, ss.raw_df)

=============================================================================
